---- MODULE Spec2Model ----
(***************************************************************************)
(* Time-and-pay computation, payroll records and roster editability of the *)
(* workforce-management views (working hours, roster, payroll).            *)
(*                                                                         *)
(* Numbers.  A JavaScript number x is represented by the integer 100 * x   *)
(* (two decimal places).  Every input of the model is a multiple of 0.5    *)
(* (hours) or of 1 (rates, deductions), which makes every product and      *)
(* quotient the code forms exact in this representation.                   *)
(*                                                                         *)
(* Clock times.  The value of an <input type="time"> is "HH:MM"; it is     *)
(* represented by the pair <<HH, MM>>, and the empty string by <<>>.       *)
(***************************************************************************)
EXTENDS Integers, Sequences, FiniteSets, Bags, TLC

VARIABLES
    working_hours,  \* the working_hours table: the bag of its rows
    formData,       \* log-hours form: the formData state
    mounted,        \* log-hours form: the first render and its effects have run
    profiles,       \* log-hours form: the local profiles list (ids of the rows fetched)
    loading,        \* log-hours form: the loading flag
    isCreateMode,   \* log-hours form: whether the form is shown
    fetching,       \* log-hours form: the fetchData calls awaiting Promise.all, oldest first,
                    \* each with the answers its four queries have got so far
    lhWorkingHours, \* log-hours form: workingHours, the rows as last fetched
    clients,        \* log-hours form: clients (ids)
    projects,       \* log-hours form: projects (ids)
    inserting,      \* log-hours form: <<row>> while handleSubmit awaits the insert
    submitForm,     \* submit form: its useState cells, as one record
    sfMounted,      \* submit form: the first render and its effects have run
    sfProfiles,     \* submit form: the local profiles list (ids)
    sfClients,      \* submit form: the local clients list (ids)
    sfProjects,     \* submit form: the local projects list (ids)
    sfPending,      \* submit form: the queries awaiting their responses
    isSubmitting,   \* submit form: the isSubmitting flag
    sfInserting,    \* submit form: <<row>> while submitWorkingHours awaits the insert
    payroll,        \* table payroll: id -> row, NoRow where none is stored
    payrollSeq,     \* number of ids the table has issued
    pvMounted,      \* Payroll page: the mount effect has run
    pvProfiles,     \* Payroll page: profiles
    pvPayrolls,     \* Payroll page: payrolls, the list as last fetched
    pvFetching,     \* Payroll page: a fetchPayrolls is awaited
    pvForm,         \* Payroll page: the generate form's state cells
    ssmMounted,     \* SalarySheetManager: the mount effect has run
    ssmPayrolls,    \* SalarySheetManager: payrolls, the list as last fetched
    ssmFetching,    \* SalarySheetManager: a fetchPayrolls is awaited
    pedOpen,        \* PayrollEditDialog: prop isOpen
    pedPayroll,     \* PayrollEditDialog: id of prop payroll, 0 for null
    pedFormData,    \* PayrollEditDialog: formData
    rostersTable,   \* table rosters: id -> the columns read
    rosters,        \* Roster view: rosters, the list as last fetched
    workingHours,   \* Roster view: workingHours, the list as last fetched
    rosterFetch,    \* Roster view: where fetchRosterData stands
    editingRoster,  \* Roster view: editingRoster
    isDialogOpen,   \* Roster view: isDialogOpen
    rosterFormData, \* Roster view: formData
    toast,          \* Roster view: title of the last notification shown
    rosterRevision, \* table rosters: id -> updates the row has taken
    rmRosters,      \* multi-profile Roster view: rosters, the ids as last fetched
    rangeView,      \* Roster view with its calendar: mounted, loading, dateRange and the
                    \* fetchRosterData calls in flight, oldest first
    role_permissions, \* table role_permissions: bag of <<role, permission>>
    rolePermissions,  \* RolePermissionsManager, per session: rolePermissions
    rpView,           \* per session: "unmounted", "loading" (loading true), "shown"
    rpSaving,         \* per session: stage and outcome of updateRolePermissions
    rpClosure,        \* per session: rolePermissions as the running save closed over it
    rpStoreBefore,    \* history: table role_permissions when the last save started
    rpAfterFailedLoad, \* history, per session: "failed" once a load failed with the matrix
                      \* at its initial value and until the matrix is next set, "saving" in
                      \* a save started meanwhile, else "no"
    whm,              \* working-hours management page: mounted, loading, running fetches,
                      \* profiles, createDialogOpen
    newWorkingHour,   \* working-hours management page: newWorkingHour
    whmInserting,     \* working-hours management page: the insert in flight, <<>> if none
    grossArgs,      \* SpecGross: the hours and rate a payroll computation is given
    grossResult,    \* SpecGross: per call site <<gross of hours, gross of 2 * hours>>
    payArgs,        \* SpecPayable: the actual_hours and hourly_rate calculatePayableAmount reads
    payResult,      \* SpecPayable: <<value returned>> (<<>> before the call)
    calcStart,      \* SpecCalc: the start time handed to calculateTotalHours
    calcEnd,        \* SpecCalc: the end time handed to calculateTotalHours
    calcResult      \* SpecCalc: call site -> <<value returned>> (<<>> before the call)

logHoursVars == <<formData, mounted, profiles, loading, isCreateMode, fetching, inserting,
                  lhWorkingHours, clients, projects>>

submitFormVars == <<submitForm, sfMounted, sfProfiles, sfClients, sfProjects, sfPending,
                    isSubmitting, sfInserting>>

calcVars == <<calcStart, calcEnd, calcResult>>

payVars == <<payArgs, payResult, grossArgs, grossResult>>

payrollTable == <<payroll, payrollSeq>>

payrollPageVars == <<pvMounted, pvProfiles, pvPayrolls, pvFetching, pvForm>>

salarySheetVars == <<ssmMounted, ssmPayrolls, ssmFetching>>

payrollDialogVars == <<pedOpen, pedPayroll, pedFormData>>

payrollVars == <<payrollTable, payrollPageVars, salarySheetVars, payrollDialogVars>>

rosterVars == <<rostersTable, rosters, workingHours, rosterFetch, editingRoster, isDialogOpen,
                rosterFormData, toast, rosterRevision, rmRosters>>

permVars == <<role_permissions, rolePermissions, rpView, rpSaving, rpClosure, rpStoreBefore, rpAfterFailedLoad>>

whmVars == <<whm, newWorkingHour, whmInserting>>

vars == <<working_hours, logHoursVars, submitFormVars, calcVars, payVars, payrollVars, rosterVars, permVars,
          whmVars, rangeView>>

\* What the actions of one view leave alone.
notLogHours == <<submitFormVars, calcVars, payVars, payrollVars, rosterVars, permVars, whmVars,
        rangeView>>

notSubmitForm == <<logHoursVars, calcVars, payVars, payrollVars, rosterVars, permVars, whmVars,
        rangeView>>

notCalc == <<working_hours, logHoursVars, submitFormVars, payVars, payrollVars, rosterVars, permVars, whmVars,
        rangeView>>

notPay == <<working_hours, logHoursVars, submitFormVars, calcVars, payrollVars, rosterVars, permVars, whmVars,
        rangeView>>

rosterTables == <<working_hours, rostersTable, rosterRevision>>

notRoster == <<logHoursVars, submitFormVars, calcVars, payVars, payrollVars, permVars, whmVars,
        rangeView>>

notPayroll == <<working_hours, logHoursVars, submitFormVars, calcVars, payVars, rosterVars, permVars, whmVars,
        rangeView>>

notPermissions == <<working_hours, logHoursVars, submitFormVars, calcVars, payVars, payrollVars, rosterVars, whmVars,
        rangeView>>

notWorkingHoursAdmin == <<logHoursVars, submitFormVars, calcVars, payVars, payrollVars, rosterVars, permVars,
        rangeView>>

notRosterRange == <<logHoursVars, submitFormVars, calcVars, payVars, payrollVars, permVars, whmVars>>

-----------------------------------------------------------------------------
(* JavaScript numbers, two decimal places                                  *)

Num(n) == n * 100

Mul(a, b) == (a * b) \div Num(1)

Div(a, b) == (a * Num(1)) \div b

MathMax(a, b) == IF a >= b THEN a ELSE b

MathMin(a, b) == IF a <= b THEN a ELSE b

-----------------------------------------------------------------------------
(* Clock times                                                             *)

NoTime == <<>>

ClockHours == {6, 9, 17, 19, 22}

ClockMinutes == {0, 30}

ClockTimes == {<<h, m>> : h \in ClockHours, m \in ClockMinutes}

\* new Date(`2000-01-01T${t}`).getTime(), in milliseconds after local midnight
\* of 2000-01-01 (every use takes the difference of two such values).
getTime(t) == (t[1] * 60 + t[2]) * 60 * 1000

\* ms / (1000 * 60 * 60) for a plain count of milliseconds ms, as a number of
\* hours in the two-decimal representation (exact for whole minutes * 0.6).
HoursOfMs(ms) == ms \div ((1000 * 60 * 60) \div Num(1))

-----------------------------------------------------------------------------
(* calculateTotalHours, one operator per call site                         *)

\* WorkingHours.tsx, log-hours form: clamps at 0.
calculateTotalHours_LogHours(start_time, end_time) ==
    LET diff == HoursOfMs(getTime(end_time) - getTime(start_time))
    IN  MathMax(Num(0), diff)

\* WorkingHours.tsx, submit form: the raw difference.
calculateTotalHours_SubmitForm(start, end) ==
    LET diffMs == getTime(end) - getTime(start)
    IN  HoursOfMs(diffMs)

\* Roster.tsx: the raw difference (stored in formData.total_hours on blur).
calculateTotalHours_RosterDialog(start_time, end_time) ==
    LET diff  == getTime(end_time) - getTime(start_time)
        hours == HoursOfMs(diff)
    IN  hours

\* The wrap applied to an empty shift as well.
calculateTotalHours_RosterCreateWrapsEqual(start, end) ==
    LET diff0         == (end[1] * 60 + end[2]) - (start[1] * 60 + start[2])
        diffInMinutes == IF diff0 <= 0 THEN diff0 + 24 * 60 ELSE diff0
    IN  Div(Num(diffInMinutes), Num(60))

\* The clamp of the other forms in place of the wrap.
calculateTotalHours_RosterCreateClamps(start, end) ==
    LET diff0         == (end[1] * 60 + end[2]) - (start[1] * 60 + start[2])
        diffInMinutes == IF diff0 < 0 THEN 0 ELSE diff0
    IN  Div(Num(diffInMinutes), Num(60))

\* Roster creation form that wraps past midnight.
calculateTotalHours_RosterCreate(start, end) ==
    LET startTimeInMinutes == start[1] * 60 + start[2]
        endTimeInMinutes   == end[1] * 60 + end[2]
        diff0              == endTimeInMinutes - startTimeInMinutes
        diffInMinutes      == IF diff0 < 0 THEN diff0 + 24 * 60 ELSE diff0
    IN  Div(Num(diffInMinutes), Num(60))

\* Multi-profile roster form: clamps at 0.
calculateTotalHours_RosterMulti(start_time, end_time) ==
    LET diff == HoursOfMs(getTime(end_time) - getTime(start_time))
    IN  MathMax(Num(0), diff)

\* Date-range roster view: 0 for a missing time, clamps at 0.
calculateTotalHours_RosterRange(startTime, endTime) ==
    IF startTime = NoTime \/ endTime = NoTime
    THEN Num(0)
    ELSE LET diffMs    == getTime(endTime) - getTime(startTime)
             diffHours == HoursOfMs(diffMs)
         IN  MathMax(Num(0), diffHours)

-----------------------------------------------------------------------------
(* The profiles table (read only here): id -> default hourly_rate, 0 when   *)
(* the profile has none.                                                    *)

NoSelection == ""

ProfileIds == {"p1", "p2"}

ProfileHourlyRate(p) == IF p = "p1" THEN Num(20) ELSE Num(0)

\* Rows the working_hours table may hold before the model stops inserting.
MaxRows == 1

-----------------------------------------------------------------------------
(* The clients and projects tables (read only here)                         *)

ClientIds == {"c1", "c2"}

ProjectIds == {"j1", "j2"}

\* The clients with status active when c2 is not.
ActiveClientsOne == {"c1"}

\* projects.client_id: j1 is a project of c1, j2 of c2.
ProjectClient(j) == IF j = "j1" THEN "c1" ELSE "c2"

-----------------------------------------------------------------------------
(* WorkingHours.tsx, first component: the log-hours form                    *)
(*                                                                          *)
(* React runs a render and the effects it schedules before it handles the   *)
(* next event, so every action below is a handler (or the continuation of   *)
(* an await) followed by the renders and effects its state change causes.   *)

\* What is typed into the inputs of the form.
LogHoursInputs ==
    [start_time   |-> {<<9, 0>>, <<17, 0>>},
     end_time     |-> {<<9, 0>>, <<17, 0>>},
     actual_hours |-> {Num(10)},
     hourly_rate  |-> {Num(0), Num(15)}]

\* useState initial value of formData, also the value of every form reset.
InitialFormData ==
    [profile_id     |-> NoSelection,
     start_time     |-> <<9, 0>>,
     end_time       |-> <<17, 0>>,
     total_hours    |-> Num(8),
     actual_hours   |-> Num(8),
     overtime_hours |-> Num(0),
     hourly_rate    |-> Num(0),
     payable_amount |-> Num(0)]

InitLogHours ==
    /\ formData = InitialFormData
    /\ mounted = FALSE
    /\ profiles = {}
    /\ loading = TRUE
    /\ isCreateMode = FALSE
    /\ fetching = <<>>
    /\ inserting = <<>>
    /\ lhWorkingHours = EmptyBag
    /\ clients = {}
    /\ projects = {}

OnePointFive == Num(3) \div 2

calculatePayableAmountNoPremium(fd) ==
    Mul(fd.actual_hours, fd.hourly_rate)

calculatePayableAmount(fd) ==
    LET regularHours  == MathMin(fd.actual_hours, Num(8))
        overtimeHours == MathMax(Num(0), fd.actual_hours - Num(8))
        regularPay    == Mul(regularHours, fd.hourly_rate)
        overtimePay   == Mul(Mul(overtimeHours, fd.hourly_rate), OnePointFive)
    IN  regularPay + overtimePay

\* useEffect [start_time, end_time]: total_hours and actual_hours follow the times.
\* fd is the formData of the render that scheduled the effect, prev the state
\* its functional update receives.
EffectTotalHours(fd, prev) ==
    LET totalHours == calculateTotalHours_LogHours(fd.start_time, fd.end_time)
    IN  [prev EXCEPT !.total_hours = totalHours, !.actual_hours = totalHours]

\* useEffect [actual_hours, hourly_rate]: the derived fields.
EffectDerivedFields(fd, prev) ==
    LET payableAmount == calculatePayableAmount(fd)
        overtimeHours == MathMax(Num(0), fd.actual_hours - Num(8))
    IN  [prev EXCEPT !.payable_amount = payableAmount, !.overtime_hours = overtimeHours]

\* useEffect [profile_id, profiles]: the selected profile's default rate.
EffectProfileRate(fd, prev, profs) ==
    IF fd.profile_id \in profs /\ ProfileHourlyRate(fd.profile_id) # 0
    THEN [prev EXCEPT !.hourly_rate = ProfileHourlyRate(fd.profile_id)]
    ELSE prev

DerivedFieldsDepsOnlyHours == {"actual_hours"}

\* The dependency list of the derived-fields effect.
DerivedFieldsDeps == {"actual_hours", "hourly_rate"}

\* Whether one of the fields changed between the last render (last, <<>> before
\* the first one) and this one (fd): every effect runs after the first render.
DepsChanged(fields, last, fd) ==
    IF last = <<>> THEN TRUE ELSE \E f \in fields : fd[f] # last[1][f]

\* One render showing fd and the effects it schedules, in source order; last is
\* the render before it and profsSet tells that setProfiles ran in between.
RenderEffects(fd, last, profs, profsSet) ==
    LET s1 == IF DepsChanged({"start_time", "end_time"}, last, fd)
              THEN EffectTotalHours(fd, fd) ELSE fd
        s2 == IF DepsChanged(DerivedFieldsDeps, last, fd)
              THEN EffectDerivedFields(fd, s1) ELSE s1
        s3 == IF DepsChanged({"profile_id"}, last, fd) \/ profsSet
              THEN EffectProfileRate(fd, s2, profs) ELSE s2
    IN  s3

\* Renders until no effect changes the state any more.
RECURSIVE Rerender(_, _, _, _)
Rerender(fd, last, profs, profsSet) ==
    IF last = <<fd>> /\ ~profsSet
    THEN fd
    ELSE Rerender(RenderEffects(fd, last, profs, profsSet), <<fd>>, profs, FALSE)

\* The formData once React has settled after a handler left it at fd.
AfterSet(fd) == Rerender(fd, <<formData>>, profiles, FALSE)

\* The four queries fetchData hands to Promise.all.
FetchQueries == {"working_hours", "profiles", "clients", "projects"}

\* A fetchData call that has just sent them.
PendingFetch == [answers |-> [query \in FetchQueries |-> "pending"], data |-> EmptyBag]

\* The first render: every effect runs, and the mount effect calls fetchData,
\* which sets loading and sends its four queries.
LH_Mount ==
    /\ ~mounted
    /\ mounted' = TRUE
    /\ formData' = Rerender(formData, <<>>, profiles, FALSE)
    /\ loading' = TRUE
    /\ fetching' = Append(fetching, PendingFetch)
    /\ UNCHANGED <<profiles, isCreateMode, inserting, lhWorkingHours, clients, projects,
                   working_hours, notLogHours>>

\* The form accepts input: the view is not showing "Loading..." and the form is open.
FormShown == mounted /\ ~loading /\ isCreateMode

\* One of the four queries of a fetchData call answered, with its rows or with
\* an error; Promise.all keeps waiting for the others.
LH_Response(i, query, answer) ==
    /\ fetching[i].answers[query] = "pending"
    /\ fetching' = [fetching EXCEPT ![i].answers[query] = answer,
                                    ![i].data = IF query = "working_hours" /\ answer = "ok"
                                                THEN working_hours ELSE @]
    /\ UNCHANGED <<formData, mounted, profiles, loading, isCreateMode, inserting,
                   lhWorkingHours, clients, projects, working_hours, notLogHours>>

\* fetchData after Promise.all, all four queries answered without error: the
\* four setters; finally.
LH_FetchDataOk ==
    \E i \in 1..Len(fetching) :
        /\ \A query \in FetchQueries : fetching[i].answers[query] = "ok"
        /\ fetching' = SubSeq(fetching, 1, i - 1) \o SubSeq(fetching, i + 1, Len(fetching))
        /\ lhWorkingHours' = fetching[i].data
        /\ profiles' = ProfileIds
        /\ clients' = ClientIds
        /\ projects' = ProjectIds
        /\ formData' = Rerender(formData, <<formData>>, ProfileIds, TRUE)
        /\ loading' = FALSE
        /\ UNCHANGED <<mounted, isCreateMode, inserting, working_hours, notLogHours>>

\* fetchData after Promise.all, one of the four queries answered with an
\* error: the throw before the setters, the catch branch; finally.
LH_FetchDataError ==
    \E i \in 1..Len(fetching) :
        /\ \A query \in FetchQueries : fetching[i].answers[query] # "pending"
        /\ \E query \in FetchQueries : fetching[i].answers[query] = "error"
        /\ fetching' = SubSeq(fetching, 1, i - 1) \o SubSeq(fetching, i + 1, Len(fetching))
        /\ loading' = FALSE
        /\ UNCHANGED <<formData, mounted, profiles, isCreateMode, inserting,
                       lhWorkingHours, clients, projects, working_hours, notLogHours>>

\* The "Log Hours" button.
LH_OpenForm ==
    /\ mounted /\ ~loading /\ ~isCreateMode
    /\ isCreateMode' = TRUE
    /\ UNCHANGED <<formData, mounted, profiles, loading, fetching, inserting,
                   lhWorkingHours, clients, projects, working_hours, notLogHours>>

\* An input's onChange / a select's onValueChange.
LH_Edit(field, value) ==
    /\ FormShown
    /\ formData[field] # value
    /\ formData' = AfterSet([formData EXCEPT ![field] = value])
    /\ UNCHANGED <<mounted, profiles, loading, isCreateMode, fetching, inserting,
                   lhWorkingHours, clients, projects, working_hours, notLogHours>>

\* The Cancel button.
LH_ResetForm ==
    /\ FormShown
    /\ formData' = AfterSet(InitialFormData)
    /\ isCreateMode' = FALSE
    /\ UNCHANGED <<mounted, profiles, loading, fetching, inserting,
                   lhWorkingHours, clients, projects, working_hours, notLogHours>>

\* The row handleSubmit builds from the formData it closes over.
workingHourData(fd) ==
    [profile_id     |-> fd.profile_id,
     start_time     |-> fd.start_time,
     end_time       |-> fd.end_time,
     total_hours    |-> fd.total_hours,
     actual_hours   |-> fd.actual_hours,
     overtime_hours |-> fd.overtime_hours,
     hourly_rate    |-> fd.hourly_rate,
     payable_amount |-> fd.payable_amount,
     status         |-> "pending"]

\* handleSubmit up to its await.
LH_HandleSubmit ==
    /\ FormShown
    /\ BagCardinality(working_hours) < MaxRows
    /\ loading' = TRUE
    /\ inserting' = <<workingHourData(formData)>>
    /\ UNCHANGED <<formData, mounted, profiles, isCreateMode, fetching,
                   lhWorkingHours, clients, projects, working_hours, notLogHours>>

\* handleSubmit after the insert succeeded: reset, close, refetch; finally.
LH_InsertOk ==
    /\ inserting # <<>>
    /\ working_hours' = working_hours (+) SetToBag({inserting[1]})
    /\ inserting' = <<>>
    /\ formData' = AfterSet(InitialFormData)
    /\ isCreateMode' = FALSE
    /\ fetching' = Append(fetching, PendingFetch)
    /\ loading' = FALSE
    /\ UNCHANGED <<mounted, profiles, lhWorkingHours, clients, projects, notLogHours>>

\* A catch branch that resets and closes the form as the success path does.
LH_InsertErrorResets ==
    /\ inserting # <<>>
    /\ inserting' = <<>>
    /\ formData' = AfterSet(InitialFormData)
    /\ isCreateMode' = FALSE
    /\ loading' = FALSE
    /\ UNCHANGED <<mounted, profiles, fetching, lhWorkingHours, clients, projects,
                   working_hours, notLogHours>>

\* handleSubmit after the insert failed: the catch branch; finally.
LH_InsertError ==
    /\ inserting # <<>>
    /\ inserting' = <<>>
    /\ loading' = FALSE
    /\ UNCHANGED <<formData, mounted, profiles, isCreateMode, fetching,
                   lhWorkingHours, clients, projects, working_hours, notLogHours>>

Dates == {"2024-01-15"}

-----------------------------------------------------------------------------
(* WorkingHours.tsx, second component: the submit form                      *)
(*                                                                          *)
(* The user is taken not to edit the form while an insert is awaited.       *)

\* What is entered into the inputs of the form.
SubmitFormInputs ==
    [date          |-> Dates,
     startTime     |-> {<<17, 0>>},
     endTime       |-> {<<9, 0>>, <<19, 0>>},
     hourlyRate    |-> {Num(15)},
     actualHours   |-> {Num(10)},
     overtimeHours |-> {Num(2)}]

\* The useState initial values, also what resetForm sets.
InitialSubmitForm ==
    [selectedProfile |-> NoSelection,
     selectedClient  |-> NoSelection,
     selectedProject |-> NoSelection,
     date            |-> "",
     startTime       |-> NoTime,
     endTime         |-> NoTime,
     hourlyRate      |-> Num(0),
     actualHours     |-> Num(0),
     overtimeHours   |-> Num(0)]

InitSubmitForm ==
    /\ submitForm = InitialSubmitForm
    /\ sfMounted = FALSE
    /\ sfProfiles = {}
    /\ sfClients = {}
    /\ sfProjects = {}
    /\ sfPending = {}
    /\ isSubmitting = FALSE
    /\ sfInserting = <<>>

\* useEffect [selectedProfile, profiles]: the selected profile's default rate.
Submit_ProfileRate(form, profs) ==
    IF form.selectedProfile # NoSelection
       /\ form.selectedProfile \in profs
       /\ ProfileHourlyRate(form.selectedProfile) # 0
    THEN [form EXCEPT !.hourlyRate = ProfileHourlyRate(form.selectedProfile)]
    ELSE form

\* The first render: the mount effect sends the profiles and clients queries
\* (and the working-hours one, whose list the model does not keep); the
\* selectedClient effect finds no client and empties projects.
Submit_Mount ==
    /\ ~sfMounted
    /\ sfMounted' = TRUE
    /\ sfPending' = sfPending \cup {<<"profiles">>, <<"clients">>}
    /\ sfProjects' = {}
    /\ UNCHANGED <<submitForm, sfProfiles, sfClients, isSubmitting, sfInserting,
                   working_hours, notSubmitForm>>

\* fetchProfiles answered: setProfiles, then the profile-rate effect.
Submit_FetchProfilesOk ==
    /\ <<"profiles">> \in sfPending
    /\ sfPending' = sfPending \ {<<"profiles">>}
    /\ sfProfiles' = ProfileIds
    /\ submitForm' = Submit_ProfileRate(submitForm, ProfileIds)
    /\ UNCHANGED <<sfMounted, sfClients, sfProjects, isSubmitting, sfInserting,
                   working_hours, notSubmitForm>>

\* fetchClients answered with the active clients, data.
Submit_FetchClientsOk(data) ==
    /\ <<"clients">> \in sfPending
    /\ sfPending' = sfPending \ {<<"clients">>}
    /\ sfClients' = data
    /\ UNCHANGED <<submitForm, sfMounted, sfProfiles, sfProjects, isSubmitting, sfInserting,
                   working_hours, notSubmitForm>>

\* fetchProjects(clientId) answered: the active projects of that client.
Submit_FetchProjectsOk ==
    \E q \in sfPending :
        /\ q[1] = "projects"
        /\ sfPending' = sfPending \ {q}
        /\ sfProjects' = {j \in ProjectIds : ProjectClient(j) = q[2]}
        /\ UNCHANGED <<submitForm, sfMounted, sfProfiles, sfClients, isSubmitting,
                       sfInserting, working_hours, notSubmitForm>>

\* A query answered with an error: logged, nothing set.
Submit_FetchError ==
    \E q \in sfPending :
        /\ sfPending' = sfPending \ {q}
        /\ UNCHANGED <<submitForm, sfMounted, sfProfiles, sfClients, sfProjects,
                       isSubmitting, sfInserting, working_hours, notSubmitForm>>

Submit_CanEdit == sfMounted /\ ~isSubmitting

\* A plain setter: setDate, setStartTime, setEndTime, setHourlyRate,
\* setActualHours, setOvertimeHours, setSelectedProject.
Submit_Set(field, value) ==
    /\ Submit_CanEdit
    /\ submitForm[field] # value
    /\ submitForm' = [submitForm EXCEPT ![field] = value]
    /\ UNCHANGED <<sfMounted, sfProfiles, sfClients, sfProjects, sfPending, isSubmitting,
                   sfInserting, working_hours, notSubmitForm>>

\* setSelectedProfile, then the profile-rate effect.
Submit_SelectProfile ==
    \E p \in sfProfiles :
        /\ Submit_CanEdit
        /\ submitForm.selectedProfile # p
        /\ submitForm' = Submit_ProfileRate([submitForm EXCEPT !.selectedProfile = p], sfProfiles)
        /\ UNCHANGED <<sfMounted, sfProfiles, sfClients, sfProjects, sfPending, isSubmitting,
                       sfInserting, working_hours, notSubmitForm>>

\* setSelectedClient, then the selectedClient effect: fetchProjects.
Submit_SelectClient ==
    \E c \in sfClients :
        /\ Submit_CanEdit
        /\ submitForm.selectedClient # c
        /\ submitForm' = [submitForm EXCEPT !.selectedClient = c]
        /\ sfPending' = sfPending \cup {<<"projects", c>>}
        /\ UNCHANGED <<sfMounted, sfProfiles, sfClients, sfProjects, isSubmitting,
                       sfInserting, working_hours, notSubmitForm>>

\* The project select is disabled without a client and offers the local list.
Submit_SelectProject ==
    \E j \in sfProjects :
        /\ submitForm.selectedClient # NoSelection
        /\ Submit_Set("selectedProject", j)

\* The validation at the top of submitWorkingHours.
Submit_MissingField(form) ==
    \/ form.selectedProfile = NoSelection
    \/ form.selectedClient = NoSelection
    \/ form.selectedProject = NoSelection
    \/ form.date = ""
    \/ form.startTime = NoTime
    \/ form.endTime = NoTime

\* The row submitWorkingHours builds.
workingHoursData(form) ==
    LET totalHours    == calculateTotalHours_SubmitForm(form.startTime, form.endTime)
        payableAmount == Mul(totalHours, form.hourlyRate)
    IN  [profile_id     |-> form.selectedProfile,
         client_id      |-> form.selectedClient,
         project_id     |-> form.selectedProject,
         date           |-> form.date,
         start_time     |-> form.startTime,
         end_time       |-> form.endTime,
         total_hours    |-> totalHours,
         actual_hours   |-> form.actualHours,
         overtime_hours |-> form.overtimeHours,
         hourly_rate    |-> form.hourlyRate,
         payable_amount |-> payableAmount,
         status         |-> "pending"]

\* submitWorkingHours rejecting the form: a toast, nothing else.
Submit_SubmitRejected ==
    /\ Submit_CanEdit
    /\ Submit_MissingField(submitForm)
    /\ UNCHANGED vars

\* submitWorkingHours up to its await.
Submit_Submit ==
    /\ Submit_CanEdit
    /\ ~Submit_MissingField(submitForm)
    /\ BagCardinality(working_hours) < MaxRows
    /\ isSubmitting' = TRUE
    /\ sfInserting' = <<workingHoursData(submitForm)>>
    /\ UNCHANGED <<submitForm, sfMounted, sfProfiles, sfClients, sfProjects, sfPending,
                   working_hours, notSubmitForm>>

\* After the insert succeeded: resetForm (whose empty client makes the
\* selectedClient effect empty projects), fetchWorkingHours; finally.
Submit_InsertOk ==
    /\ sfInserting # <<>>
    /\ working_hours' = working_hours (+) SetToBag({sfInserting[1]})
    /\ sfInserting' = <<>>
    /\ submitForm' = InitialSubmitForm
    /\ sfProjects' = {}
    /\ isSubmitting' = FALSE
    /\ UNCHANGED <<sfMounted, sfProfiles, sfClients, sfPending, notSubmitForm>>

\* After the insert failed: the catch branch; finally.
Submit_InsertError ==
    /\ sfInserting # <<>>
    /\ sfInserting' = <<>>
    /\ isSubmitting' = FALSE
    /\ UNCHANGED <<submitForm, sfMounted, sfProfiles, sfClients, sfProjects, sfPending,
                   working_hours, notSubmitForm>>

-----------------------------------------------------------------------------
(* Table payroll and the three payroll views.  A request that writes the    *)
(* table is one step with the write the server applies to it: the handler   *)
(* builds the request from the state it was called in, so a write applied   *)
(* later is the same write called later.  A failed request changes nothing. *)
(* The columns kept are the ones the views compute or guard on.             *)

\* Rows the table may come to hold.
MaxPayrolls == 1

PayrollIds == 1..MaxPayrolls

NoRow == <<>>

PayrollStatuses == {"pending", "approved", "paid"}

\* The row written under the next id.
InsertPayroll(row) == [payroll EXCEPT ![payrollSeq + 1] = row]

\* update(...).eq('id', id): no row matched when the id is gone.
UpdatePayroll(id, row) == IF payroll[id] = NoRow THEN payroll ELSE [payroll EXCEPT ![id] = row]

(* Payroll page *)

\* What is entered into the inputs of the generate form.
PayrollFormInputs ==
    [payPeriodStart |-> Dates,
     payPeriodEnd   |-> Dates,
     totalHours     |-> {Num(10)},
     hourlyRate     |-> {Num(20)}]

\* The team members picked on the Payroll page.
PayrollProfileInputs == {"p1"}

InitialPayrollForm ==
    [selectedProfile |-> NoSelection, payPeriodStart |-> "", payPeriodEnd |-> "",
     totalHours |-> 0, hourlyRate |-> 0]

PV_Mount ==
    /\ ~pvMounted
    /\ pvMounted' = TRUE
    /\ pvFetching' = TRUE
    /\ UNCHANGED <<pvProfiles, pvPayrolls, pvForm, payrollTable, salarySheetVars,
                   payrollDialogVars, notPayroll>>

PV_FetchProfilesOk ==
    /\ pvMounted
    /\ pvProfiles = {}
    /\ pvProfiles' = ProfileIds
    /\ UNCHANGED <<pvMounted, pvPayrolls, pvFetching, pvForm, payrollTable, salarySheetVars,
                   payrollDialogVars, notPayroll>>

\* fetchPayrolls returning: the list is replaced on success, kept on error.
PV_FetchPayrollsDone ==
    /\ pvFetching
    /\ pvFetching' = FALSE
    /\ \/ pvPayrolls' = payroll
       \/ pvPayrolls' = pvPayrolls
    /\ UNCHANGED <<pvMounted, pvProfiles, pvForm, payrollTable, salarySheetVars,
                   payrollDialogVars, notPayroll>>

\* The generate form is followed while the table can still take its row.
PV_Set(field, value) ==
    /\ pvMounted
    /\ payrollSeq < MaxPayrolls
    /\ pvForm' = [pvForm EXCEPT ![field] = value]
    /\ UNCHANGED <<pvMounted, pvProfiles, pvPayrolls, pvFetching, payrollTable, salarySheetVars,
                   payrollDialogVars, notPayroll>>

PV_handleProfileChange ==
    \E p \in pvProfiles \cap PayrollProfileInputs :
        /\ pvMounted
        /\ payrollSeq < MaxPayrolls
        /\ pvForm' = [pvForm EXCEPT !.selectedProfile = p,
                                    !.hourlyRate = IF ProfileHourlyRate(p) # 0
                                                   THEN ProfileHourlyRate(p) ELSE 0]
        /\ UNCHANGED <<pvMounted, pvProfiles, pvPayrolls, pvFetching, payrollTable,
                       salarySheetVars, payrollDialogVars, notPayroll>>

TenPercent == Num(1) \div 10

\* The deductions stored but not subtracted.
payrollDataNetIsGross(form) ==
    LET grossPay   == Mul(form.totalHours, form.hourlyRate)
        deductions == Mul(grossPay, TenPercent)
    IN  [profile_id |-> form.selectedProfile, total_hours |-> form.totalHours,
         hourly_rate |-> form.hourlyRate, gross_pay |-> grossPay,
         deductions |-> deductions, net_pay |-> grossPay, status |-> "pending"]

\* payrollData of generatePayroll.
payrollData(form) ==
    LET grossPay   == Mul(form.totalHours, form.hourlyRate)
        deductions == Mul(grossPay, TenPercent)
        netPay     == grossPay - deductions
    IN  [profile_id |-> form.selectedProfile, total_hours |-> form.totalHours,
         hourly_rate |-> form.hourlyRate, gross_pay |-> grossPay,
         deductions |-> deductions, net_pay |-> netPay, status |-> "pending"]

PV_MissingField(form) ==
    \/ form.selectedProfile = NoSelection
    \/ form.payPeriodStart = ""
    \/ form.payPeriodEnd = ""
    \/ form.totalHours = 0
    \/ form.hourlyRate = 0

PV_generatePayroll ==
    /\ pvMounted
    /\ payrollSeq < MaxPayrolls
    /\ IF PV_MissingField(pvForm)
       THEN UNCHANGED vars
       ELSE \/ /\ payroll' = InsertPayroll(payrollData(pvForm))
               /\ payrollSeq' = payrollSeq + 1
               /\ pvForm' = InitialPayrollForm
               /\ pvFetching' = TRUE
               /\ UNCHANGED <<pvMounted, pvProfiles, pvPayrolls, salarySheetVars,
                              payrollDialogVars, notPayroll>>
            \/ UNCHANGED vars

\* The row's button: Approve on a row listed as pending, Mark Paid on a row
\* listed as approved.
PV_updatePayrollStatus(id, status) ==
    /\ pvMounted
    /\ pvPayrolls[id] # NoRow
    /\ \/ pvPayrolls[id].status = "pending" /\ status = "approved"
       \/ pvPayrolls[id].status = "approved" /\ status = "paid"
    /\ \/ /\ payroll' = UpdatePayroll(id, [payroll[id] EXCEPT !.status = status])
          /\ pvFetching' = TRUE
          /\ UNCHANGED <<payrollSeq, pvMounted, pvProfiles, pvPayrolls, pvForm, salarySheetVars,
                         payrollDialogVars, notPayroll>>
       \/ UNCHANGED vars

(* SalarySheetManager.  No control of the view is bound to setFormData, to  *)
(* handleSubmit or to updatePayrollStatus.  handleSubmit is taken as called  *)
(* with any form contents; updatePayrollStatus is left out.                  *)

InitialSalaryForm ==
    [profile_id |-> NoSelection, total_hours |-> 0, hourly_rate |-> 0, gross_pay |-> 0,
     deductions |-> 0, net_pay |-> 0, status |-> "pending"]

SalaryFormInputs ==
    {[InitialSalaryForm EXCEPT !.profile_id = "p2", !.total_hours = Num(4),
                               !.hourly_rate = Num(20), !.deductions = Num(100)]}

\* Hours past eight left unpaid.
calculatePayrollCapped(hours, rate, deductions) ==
    LET gross == Mul(MathMin(hours, Num(8)), rate)
        net   == gross - deductions
    IN  [gross |-> gross, net |-> net]

calculatePayroll(hours, rate, deductions) ==
    LET gross == Mul(hours, rate)
        net   == gross - deductions
    IN  [gross |-> gross, net |-> net]

SSM_Mount ==
    /\ ~ssmMounted
    /\ ssmMounted' = TRUE
    /\ ssmFetching' = TRUE
    /\ UNCHANGED <<ssmPayrolls, payrollTable, payrollPageVars, payrollDialogVars, notPayroll>>

SSM_FetchPayrollsDone ==
    /\ ssmFetching
    /\ ssmFetching' = FALSE
    /\ \/ ssmPayrolls' = payroll
       \/ ssmPayrolls' = ssmPayrolls
    /\ UNCHANGED <<ssmMounted, payrollTable, payrollPageVars, payrollDialogVars, notPayroll>>

SSM_handleSubmit(formData_) ==
    LET calc == calculatePayroll(formData_.total_hours, formData_.hourly_rate, formData_.deductions)
    IN  /\ ssmMounted
        /\ payrollSeq < MaxPayrolls
        /\ \/ /\ payroll' = InsertPayroll([formData_ EXCEPT !.gross_pay = calc.gross,
                                                            !.net_pay = calc.net])
              /\ payrollSeq' = payrollSeq + 1
              /\ ssmFetching' = TRUE
              /\ UNCHANGED <<ssmMounted, ssmPayrolls, payrollPageVars, payrollDialogVars,
                             notPayroll>>
           \/ UNCHANGED vars

\* The Delete button is rendered on the rows not listed as paid.
SSM_deletePayroll(id) ==
    /\ ssmMounted
    /\ ssmPayrolls[id] # NoRow
    /\ ssmPayrolls[id].status # "paid"
    /\ \/ /\ payroll' = [payroll EXCEPT ![id] = NoRow]
          /\ ssmFetching' = TRUE
          /\ UNCHANGED <<payrollSeq, ssmMounted, ssmPayrolls, payrollPageVars,
                         payrollDialogVars, notPayroll>>
       \/ UNCHANGED vars

(* PayrollEditDialog.  The component that renders it is taken to keep it     *)
(* mounted and to open it on a row as stored.                                *)

\* What is entered into the inputs of the dialog.
DialogInputs ==
    [total_hours |-> {Num(5)},
     deductions  |-> {Num(300)},
     status      |-> PayrollStatuses]

InitialDialogForm == InitialSalaryForm

\* Net pay held at zero.
PED_calculatePayrollClamped(fd) ==
    LET grossPay == Mul(fd.total_hours, fd.hourly_rate)
        netPay   == MathMax(0, grossPay - fd.deductions)
    IN  [fd EXCEPT !.gross_pay = grossPay, !.net_pay = netPay]

\* calculatePayroll of the dialog: the two fields set over the current state.
PED_calculatePayroll(fd) ==
    LET grossPay == Mul(fd.total_hours, fd.hourly_rate)
        netPay   == grossPay - fd.deductions
    IN  [fd EXCEPT !.gross_pay = grossPay, !.net_pay = netPay]

PED_CalcDepsNoDeductions == {"total_hours", "hourly_rate"}

PED_CalcDeps == {"total_hours", "hourly_rate", "deductions"}

\* The render showing fd after one showing prev, and its effect.
PED_Render(fd, prev) ==
    IF DepsChanged(PED_CalcDeps, <<prev>>, fd) THEN PED_calculatePayroll(fd) ELSE fd

\* The load effect on [payroll, isOpen].
PED_Open(id) ==
    /\ ~pedOpen
    /\ payroll[id] # NoRow
    /\ pedOpen' = TRUE
    /\ pedPayroll' = id
    /\ pedFormData' = PED_Render(payroll[id], pedFormData)
    /\ UNCHANGED <<payrollTable, payrollPageVars, salarySheetVars, notPayroll>>

PED_Set(field, value) ==
    /\ pedOpen
    /\ pedFormData' = PED_Render([pedFormData EXCEPT ![field] = value], pedFormData)
    /\ UNCHANGED <<pedOpen, pedPayroll, payrollTable, payrollPageVars, salarySheetVars,
                   notPayroll>>

PED_handleSubmit ==
    /\ pedOpen
    /\ pedPayroll # 0
    /\ \/ /\ payroll' = UpdatePayroll(pedPayroll, pedFormData)
          /\ pedOpen' = FALSE
          /\ UNCHANGED <<payrollSeq, pedPayroll, pedFormData, payrollPageVars, salarySheetVars,
                         notPayroll>>
       \/ UNCHANGED vars

PED_Close ==
    /\ pedOpen
    /\ pedOpen' = FALSE
    /\ UNCHANGED <<pedPayroll, pedFormData, payrollTable, payrollPageVars, salarySheetVars,
                   notPayroll>>

InitPayroll ==
    /\ payroll = [id \in PayrollIds |-> NoRow]
    /\ payrollSeq = 0
    /\ pvMounted = FALSE
    /\ pvProfiles = {}
    /\ pvPayrolls = [id \in PayrollIds |-> NoRow]
    /\ pvFetching = FALSE
    /\ pvForm = InitialPayrollForm
    /\ ssmMounted = FALSE
    /\ ssmPayrolls = [id \in PayrollIds |-> NoRow]
    /\ ssmFetching = FALSE
    /\ pedOpen = FALSE
    /\ pedPayroll = 0
    /\ pedFormData = InitialDialogForm

-----------------------------------------------------------------------------
(* Table rosters and the date-range Roster view.  The rows of working_hours *)
(* the view reads are kept with the columns it reads: id, roster_id, status.*)

RosterIds == {"r1", "r2"}

\* Working-hours rows linked to a roster.
MaxLinkedRows == 3

\* Updates followed per roster.
MaxRosterUpdates == 1

WorkingHourStatuses == {"pending", "approved", "rejected"}

\* The view's dateRange, from = to = the day it is constructed on, and a day
\* outside it.
DatesInRange == Dates

WorkingHourDates == DatesInRange \cup {"2024-01-16"}

\* The tables as the view may find them.
RosterTables == [RosterIds -> [is_locked : BOOLEAN]]

LinkedWorkingHours ==
    {SetToBag({[id |-> i, roster_id |-> link[i][1], status |-> link[i][2], date |-> link[i][3]] :
                  i \in 1..MaxLinkedRows}) :
        link \in [1..MaxLinkedRows -> RosterIds \X WorkingHourStatuses \X WorkingHourDates]}

NoRoster == <<>>

InitialRosterForm == [selected_profiles |-> {}, start_date |-> "", status |-> "pending"]

InitRosterView ==
    /\ rosters = {}
    /\ workingHours = {}
    /\ rosterFetch = "unmounted"
    /\ editingRoster = NoRoster
    /\ isDialogOpen = FALSE
    /\ rosterFormData = InitialRosterForm
    /\ toast = ""
    /\ rosterRevision = [r \in RosterIds |-> 0]
    /\ rmRosters = {}

getApprovedHoursForRoster(rosterId) ==
    Cardinality({wh \in workingHours : wh.roster_id = rosterId /\ wh.status = "approved"})

\* The lock left out.
isRosterEditableIgnoringLock(roster) ==
    LET approvedHours == getApprovedHoursForRoster(roster.id)
    IN  approvedHours = 0

isRosterEditable(roster) ==
    LET approvedHours == getApprovedHoursForRoster(roster.id)
    IN  approvedHours = 0 /\ ~roster.is_locked

\* The effect on [dateRange]: fetchRosterData starts with the rosters query.
Roster_Mount ==
    /\ rosterFetch = "unmounted"
    /\ rosterFetch' = "rosters"
    /\ UNCHANGED <<rosters, workingHours, editingRoster, isDialogOpen, rosterFormData, toast,
                   rmRosters, rosterTables, notRoster>>

\* The rosters query returning: setRosters and the working_hours query, or the
\* catch branch.
Roster_FetchRostersDone ==
    /\ rosterFetch = "rosters"
    /\ \/ /\ rosters' = {[id |-> r, is_locked |-> rostersTable[r].is_locked] :
                            r \in DOMAIN rostersTable}
          /\ rosterFetch' = "working_hours"
          /\ UNCHANGED toast
       \/ /\ rosterFetch' = "failed"
          /\ toast' = "Error"
          /\ UNCHANGED rosters
    /\ UNCHANGED <<workingHours, editingRoster, isDialogOpen, rosterFormData, rmRosters,
                   rosterTables, notRoster>>

\* The working_hours query returning, .gte('date', startDate).lte('date', endDate).
Roster_FetchWorkingHoursDone ==
    /\ rosterFetch = "working_hours"
    /\ \/ /\ workingHours' = {wh \in BagToSet(working_hours) : wh.date \in DatesInRange}
          /\ rosterFetch' = "idle"
          /\ UNCHANGED toast
       \/ /\ rosterFetch' = "failed"
          /\ toast' = "Error"
          /\ UNCHANGED workingHours
    /\ UNCHANGED <<rosters, editingRoster, isDialogOpen, rosterFormData, rmRosters,
                   rosterTables, notRoster>>

\* The check of handleEdit left out.
Roster_handleEditUnchecked(roster) ==
    /\ roster \in rosters
    /\ ~isDialogOpen
    /\ editingRoster' = roster
    /\ rosterFormData' = [selected_profiles |-> {IF roster.id = "r1" THEN "p1" ELSE "p2"},
                          start_date |-> "2024-01-15", status |-> "pending"]
    /\ isDialogOpen' = TRUE
    /\ UNCHANGED <<rosters, workingHours, rosterFetch, toast, rmRosters, rosterTables, notRoster>>

\* handleEdit called on a listed roster.  (The Edit button that calls it is
\* disabled while the roster is not editable.)
Roster_handleEdit(roster) ==
    /\ roster \in rosters
    /\ ~isDialogOpen
    /\ IF ~isRosterEditable(roster)
       THEN /\ toast' = "Cannot Edit"
            /\ UNCHANGED <<editingRoster, rosterFormData, isDialogOpen>>
       ELSE /\ editingRoster' = roster
            /\ rosterFormData' = [selected_profiles |-> {IF roster.id = "r1" THEN "p1" ELSE "p2"},
                                  start_date |-> "2024-01-15", status |-> "pending"]
            /\ isDialogOpen' = TRUE
            /\ UNCHANGED toast
    /\ UNCHANGED <<rosters, workingHours, rosterFetch, rmRosters, rosterTables, notRoster>>

\* onOpenChange of the dialog.
Roster_CloseDialog ==
    /\ isDialogOpen
    /\ isDialogOpen' = FALSE
    /\ UNCHANGED <<rosters, workingHours, rosterFetch, editingRoster, rosterFormData, toast,
                   rmRosters, rosterTables, notRoster>>

\* handleSubmit with editingRoster set: the update by editingRoster.id, the
\* columns it writes kept as the number of updates the row has taken, then the
\* dialog closed, the form reset and fetchRosterData; or the catch branch.
\* The submit button is disabled while loading.
Roster_handleSubmit ==
    /\ isDialogOpen
    /\ editingRoster # NoRoster
    /\ rosterFetch \in {"idle", "failed"}
    /\ rosterRevision[editingRoster.id] < MaxRosterUpdates
    /\ \/ /\ rosterRevision' = IF editingRoster.id \in DOMAIN rostersTable
                               THEN [rosterRevision EXCEPT ![editingRoster.id] = @ + 1]
                               ELSE rosterRevision
          /\ toast' = "Success"
          /\ isDialogOpen' = FALSE
          /\ editingRoster' = NoRoster
          /\ rosterFormData' = [InitialRosterForm EXCEPT !.start_date = "2024-01-15"]
          /\ rosterFetch' = "rosters"
       \/ /\ toast' = "Error"
          /\ UNCHANGED <<rosterRevision, isDialogOpen, editingRoster, rosterFormData, rosterFetch>>
    /\ UNCHANGED <<rosters, workingHours, rmRosters, working_hours, rostersTable, notRoster>>

\* Another actor approves a pending working-hours row.
ApproveWorkingHour(row) ==
    /\ row \in BagToSet(working_hours)
    /\ row.status = "pending"
    /\ working_hours' = SetToBag((BagToSet(working_hours) \ {row})
                                     \cup {[row EXCEPT !.status = "approved"]})
    /\ UNCHANGED <<rostersTable, rosterRevision, rosters, workingHours, rosterFetch,
                   editingRoster, isDialogOpen, rosterFormData, toast, rmRosters, notRoster>>

(* The multi-profile Roster view: its list and its Delete button.            *)

RosterMulti_fetchData ==
    /\ rmRosters' = DOMAIN rostersTable
    /\ rmRosters' # rmRosters
    /\ UNCHANGED <<rosters, workingHours, rosterFetch, editingRoster, isDialogOpen,
                   rosterFormData, toast, rosterTables, notRoster>>

\* Delete on a listed roster, confirmed: the delete by id, then fetchData.
RosterMulti_deleteRoster(id) ==
    /\ id \in rmRosters
    /\ rostersTable' = [r \in DOMAIN rostersTable \ {id} |-> rostersTable[r]]
    /\ rmRosters' = DOMAIN rostersTable'
    /\ UNCHANGED <<working_hours, rosterRevision, rosters, workingHours, rosterFetch,
                   editingRoster, isDialogOpen, rosterFormData, toast, notRoster>>

-----------------------------------------------------------------------------
(* The date-range Roster view and its calendar: every fetchRosterData call  *)
(* in flight is followed.  The rosters of table rosters are all dated       *)
(* 2024-01-15; days are the UTC days toISOString gives.                     *)

CalendarDays == <<"2024-01-15", "2024-01-16">>

DayNumber(date) == CHOOSE i \in 1..Len(CalendarDays) : CalendarDays[i] = date

NoDate == ""

\* What the calendar's onSelect hands to setDateRange: a range, or a from
\* date with the to date not picked yet.
DateRanges ==
    {[from |-> CalendarDays[i], to |-> CalendarDays[j]] : i, j \in 1..Len(CalendarDays)}
        \cup {[from |-> CalendarDays[i], to |-> NoDate] : i \in 1..Len(CalendarDays)}

\* dateRange?.from && dateRange?.to, with from not after to.
RangeComplete(range) ==
    range.to # NoDate /\ DayNumber(range.from) <= DayNumber(range.to)

\* .gte('date', startDate).lte('date', endDate)
InDateRange(date, range) ==
    DayNumber(range.from) <= DayNumber(date) /\ DayNumber(date) <= DayNumber(range.to)

RosterDate(r) == "2024-01-15"

RostersInRange(range) ==
    {[id |-> r, is_locked |-> rostersTable[r].is_locked] :
        r \in {id \in DOMAIN rostersTable : InDateRange(RosterDate(id), range)}}

WorkingHoursInRange(range) ==
    {wh \in BagToSet(working_hours) : InDateRange(wh.date, range)}

\* fetchRosterData calls followed at a time.
MaxRosterCalls == 2

InitRosterRange ==
    rangeView = [mounted |-> FALSE, loading |-> TRUE,
                 dateRange |-> [from |-> "2024-01-15", to |-> "2024-01-15"], calls |-> <<>>]

\* The rosters query goes out first.
RosterCall(range) == [range |-> range, awaiting |-> "rosters"]

\* The first render: the effect on [dateRange] calls fetchRosterData.
RosterRange_Mount ==
    /\ ~rangeView.mounted
    /\ rangeView' = [rangeView EXCEPT !.mounted = TRUE, !.loading = TRUE,
                                      !.calls = Append(@, RosterCall(rangeView.dateRange))]
    /\ UNCHANGED <<rosters, workingHours, rosterFetch, editingRoster, isDialogOpen,
                   rosterFormData, toast, rmRosters, rosterTables, notRosterRange>>

\* onSelect of the calendar, shown unless loading with no roster listed:
\* setDateRange, then the effect on [dateRange].
Roster_setDateRange(range) ==
    /\ rangeView.mounted
    /\ ~(rangeView.loading /\ rosters = {})
    /\ range # rangeView.dateRange
    /\ IF RangeComplete(range)
       THEN /\ Len(rangeView.calls) < MaxRosterCalls
            /\ rangeView' = [rangeView EXCEPT !.dateRange = range, !.loading = TRUE,
                                              !.calls = Append(@, RosterCall(range))]
       ELSE rangeView' = [rangeView EXCEPT !.dateRange = range]
    /\ UNCHANGED <<rosters, workingHours, rosterFetch, editingRoster, isDialogOpen,
                   rosterFormData, toast, rmRosters, rosterTables, notRosterRange>>

RemoveCall(calls, i) == SubSeq(calls, 1, i - 1) \o SubSeq(calls, i + 1, Len(calls))

\* The rosters query of call i answered: setRosters and the working_hours
\* query, or the catch branch and finally.
RosterRange_FetchRostersDone(i) ==
    /\ rangeView.calls[i].awaiting = "rosters"
    /\ \/ /\ rosters' = RostersInRange(rangeView.calls[i].range)
          /\ rangeView' = [rangeView EXCEPT !.calls[i].awaiting = "working_hours"]
          /\ UNCHANGED toast
       \/ /\ rangeView' = [rangeView EXCEPT !.calls = RemoveCall(@, i), !.loading = FALSE]
          /\ toast' = "Error"
          /\ UNCHANGED rosters
    /\ UNCHANGED <<workingHours, rosterFetch, editingRoster, isDialogOpen, rosterFormData,
                   rmRosters, rosterTables, notRosterRange>>

\* The working_hours query of call i answered: setWorkingHours, or the catch
\* branch; finally.
RosterRange_FetchWorkingHoursDone(i) ==
    /\ rangeView.calls[i].awaiting = "working_hours"
    /\ rangeView' = [rangeView EXCEPT !.calls = RemoveCall(@, i), !.loading = FALSE]
    /\ \/ /\ workingHours' = WorkingHoursInRange(rangeView.calls[i].range)
          /\ UNCHANGED toast
       \/ /\ toast' = "Error"
          /\ UNCHANGED workingHours
    /\ UNCHANGED <<rosters, rosterFetch, editingRoster, isDialogOpen, rosterFormData,
                   rmRosters, rosterTables, notRosterRange>>

-----------------------------------------------------------------------------
(* The working-hours management page: its create dialog                     *)

\* useState initial value of newWorkingHour, also its value after a create.
InitialNewWorkingHour ==
    [profile_id |-> NoSelection, client_id |-> NoSelection, project_id |-> NoSelection,
     date |-> "2024-01-15", start_time |-> <<9, 0>>, end_time |-> <<17, 0>>,
     total_hours |-> Num(8), overtime_hours |-> Num(0), hourly_rate |-> Num(50),
     status |-> "pending"]

\* What the selects and inputs of the dialog are set to; the status select
\* lists statuses.
NewWorkingHourInputs ==
    [client_id   |-> ClientIds,
     project_id  |-> ProjectIds,
     total_hours |-> {Num(10)},
     status      |-> {"pending", "approved", "rejected", "paid"}]

InitWorkingHoursAdmin ==
    /\ whm = [mounted |-> FALSE, loading |-> TRUE, fetching |-> 0, fetchingProfiles |-> FALSE,
              profiles |-> {}, createDialogOpen |-> FALSE]
    /\ newWorkingHour = InitialNewWorkingHour
    /\ whmInserting = <<>>

\* The mount effect: fetchWorkingHours, which sets loading, and fetchProfiles.
WHM_Mount ==
    /\ ~whm.mounted
    /\ whm' = [whm EXCEPT !.mounted = TRUE, !.loading = TRUE, !.fetching = 1,
                          !.fetchingProfiles = TRUE]
    /\ UNCHANGED <<newWorkingHour, whmInserting, working_hours, notWorkingHoursAdmin>>

\* fetchWorkingHours after its await, either branch; finally.
WHM_FetchWorkingHoursDone ==
    /\ whm.fetching > 0
    /\ whm' = [whm EXCEPT !.fetching = @ - 1, !.loading = FALSE]
    /\ UNCHANGED <<newWorkingHour, whmInserting, working_hours, notWorkingHoursAdmin>>

\* fetchProfiles after its await: setProfiles, or the catch branch.
WHM_FetchProfilesDone ==
    /\ whm.fetchingProfiles
    /\ \/ whm' = [whm EXCEPT !.fetchingProfiles = FALSE, !.profiles = ProfileIds]
       \/ whm' = [whm EXCEPT !.fetchingProfiles = FALSE]
    /\ UNCHANGED <<newWorkingHour, whmInserting, working_hours, notWorkingHoursAdmin>>

\* "Add Working Hour" and onOpenChange of the dialog.
WHM_setCreateDialogOpen(open) ==
    /\ whm.mounted
    /\ whm.createDialogOpen # open
    /\ whm' = [whm EXCEPT !.createDialogOpen = open]
    /\ UNCHANGED <<newWorkingHour, whmInserting, working_hours, notWorkingHoursAdmin>>

\* A select's onValueChange / an input's onChange in the dialog.
WHM_Set(field, value) ==
    /\ whm.createDialogOpen
    /\ newWorkingHour[field] # value
    /\ newWorkingHour' = [newWorkingHour EXCEPT ![field] = value]
    /\ UNCHANGED <<whm, whmInserting, working_hours, notWorkingHoursAdmin>>

\* createWorkingHour up to its await; the button is disabled while loading.
createWorkingHour ==
    /\ whm.createDialogOpen
    /\ ~whm.loading
    /\ BagCardinality(working_hours) < MaxRows
    /\ whm' = [whm EXCEPT !.loading = TRUE]
    /\ whmInserting' = <<newWorkingHour>>
    /\ UNCHANGED <<newWorkingHour, working_hours, notWorkingHoursAdmin>>

\* createWorkingHour after the insert: reset, close and fetchWorkingHours, or
\* the catch branch; finally.
WHM_InsertDone ==
    /\ whmInserting # <<>>
    /\ whmInserting' = <<>>
    /\ \/ /\ working_hours' = working_hours (+) SetToBag({whmInserting[1]})
          /\ newWorkingHour' = InitialNewWorkingHour
          /\ whm' = [whm EXCEPT !.createDialogOpen = FALSE, !.fetching = @ + 1, !.loading = FALSE]
       \/ /\ whm' = [whm EXCEPT !.loading = FALSE]
          /\ UNCHANGED <<newWorkingHour, working_hours>>
    /\ UNCHANGED notWorkingHoursAdmin

-----------------------------------------------------------------------------
(* RolePermissionsManager: the role -> permissions matrix of each open      *)
(* session and table role_permissions.                                      *)

Roles == {"admin", "employee"}

Permissions == {"dashboard_view", "employees_view"}

\* The browser sessions that may have the manager open.
Clients == {"c1", "c2"}

\* The table empty and useState of the component, before it is mounted.
InitRolePermissions ==
    /\ role_permissions = EmptyBag
    /\ rolePermissions = [c \in Clients |-> <<>>]
    /\ rpView = [c \in Clients |-> "unmounted"]
    /\ rpSaving = [c \in Clients |-> "idle"]
    /\ rpClosure = [c \in Clients |-> <<>>]
    /\ rpStoreBefore = EmptyBag
    /\ rpAfterFailedLoad = [c \in Clients |-> "no"]

\* Only the first permission of each role sent.
permissionsToInsertFirstOnly(matrix) ==
    [pair \in {<<role, permission>> \in Roles \X Permissions :
                   /\ role \in DOMAIN matrix
                   /\ Len(matrix[role]) > 0
                   /\ matrix[role][1] = permission} |-> 1]

\* updateRolePermissions: the rows built from Object.entries(rolePermissions),
\* one per entry of each role's list.
permissionsToInsert(matrix) ==
    [pair \in {<<role, permission>> \in Roles \X Permissions :
                   /\ role \in DOMAIN matrix
                   /\ \E i \in 1..Len(matrix[role]) : matrix[role][i] = permission} |->
        Cardinality({i \in 1..Len(matrix[pair[1]]) : matrix[pair[1]][i] = pair[2]})]

\* fetchRolePermissions: groupedPermissions for the rows of the table, which
\* the select returns in no stated order.
groupedPermissions(data) ==
    LET roles == {pair[1] : pair \in BagToSet(data)}
        lists == UNION {[1..n -> Permissions] : n \in 1..BagCardinality(data)}
    IN  {matrix \in [roles -> lists] : permissionsToInsert(matrix) = data}

\* The uniqueness of the (role, permission) pair in table role_permissions.
UniquePairs(rows) ==
    \A pair \in BagToSet(rows) : CopiesIn(pair, rows) = 1

\* A toggle that never removes.
togglePermissionNeverRemoves(prev, role, permission) ==
    LET currentPermissions == IF role \in DOMAIN prev THEN prev[role] ELSE <<>>
        hasPermission == \E i \in 1..Len(currentPermissions) : currentPermissions[i] = permission
    IN  [r \in DOMAIN prev \cup {role} |->
            IF r = role
            THEN IF hasPermission THEN currentPermissions ELSE Append(currentPermissions, permission)
            ELSE prev[r]]

\* A toggle without ...prev.
togglePermissionDropsPrev(prev, role, permission) ==
    LET currentPermissions == IF role \in DOMAIN prev THEN prev[role] ELSE <<>>
        hasPermission == \E i \in 1..Len(currentPermissions) : currentPermissions[i] = permission
    IN  [r \in {role} |->
            IF hasPermission
            THEN SelectSeq(currentPermissions, LAMBDA p : p # permission)
            ELSE Append(currentPermissions, permission)]

\* A toggle that does not look for the permission.
togglePermissionAlwaysAppends(prev, role, permission) ==
    LET currentPermissions == IF role \in DOMAIN prev THEN prev[role] ELSE <<>>
    IN  [r \in DOMAIN prev \cup {role} |->
            IF r = role THEN Append(currentPermissions, permission) ELSE prev[r]]

\* The updater togglePermission hands to setRolePermissions.
togglePermission(prev, role, permission) ==
    LET currentPermissions == IF role \in DOMAIN prev THEN prev[role] ELSE <<>>
        hasPermission == \E i \in 1..Len(currentPermissions) : currentPermissions[i] = permission
    IN  [r \in DOMAIN prev \cup {role} |->
            IF r = role
            THEN IF hasPermission
                 THEN SelectSeq(currentPermissions, LAMBDA p : p # permission)
                 ELSE Append(currentPermissions, permission)
            ELSE prev[r]]

\* fetchRolePermissions up to its await: from the mount effect, or from
\* Refresh, which is rendered once loading is false.
fetchRolePermissions(c) ==
    /\ rpView[c] \in {"unmounted", "shown"}
    /\ rpView' = [rpView EXCEPT ![c] = "loading"]
    /\ UNCHANGED <<role_permissions, rolePermissions, rpSaving, rpClosure, rpStoreBefore,
                   rpAfterFailedLoad, notPermissions>>

\* fetchRolePermissions after the select: setRolePermissions, or the catch
\* branch; finally.
RP_FetchDone(c) ==
    /\ rpView[c] = "loading"
    /\ rpView' = [rpView EXCEPT ![c] = "shown"]
    /\ \/ /\ \E matrix \in groupedPermissions(role_permissions) :
                 rolePermissions' = [rolePermissions EXCEPT ![c] = matrix]
          /\ rpAfterFailedLoad' = [rpAfterFailedLoad EXCEPT ![c] = "no"]
       \/ /\ UNCHANGED rolePermissions
          /\ rpAfterFailedLoad' = [rpAfterFailedLoad EXCEPT ![c] =
                                        IF rolePermissions[c] = <<>> THEN "failed" ELSE "no"]
    /\ UNCHANGED <<role_permissions, rpSaving, rpClosure, rpStoreBefore, notPermissions>>

\* onCheckedChange of the checkbox of (role, permission).
RP_togglePermission(c, role, permission) ==
    /\ rpView[c] = "shown"
    /\ rolePermissions' = [rolePermissions EXCEPT ![c] = togglePermission(@, role, permission)]
    /\ rpAfterFailedLoad' = [rpAfterFailedLoad EXCEPT ![c] = "no"]
    /\ UNCHANGED <<role_permissions, rpView, rpSaving, rpClosure, rpStoreBefore, notPermissions>>

\* updateRolePermissions up to the await of the delete; the Save button is
\* disabled while saving.  The call closes over the rolePermissions of the
\* render it was made from.
updateRolePermissions(c) ==
    /\ rpView[c] = "shown"
    /\ rpSaving[c] \notin {"deleting", "inserting"}
    /\ rpSaving' = [rpSaving EXCEPT ![c] = "deleting"]
    /\ rpClosure' = [rpClosure EXCEPT ![c] = rolePermissions[c]]
    /\ rpStoreBefore' = role_permissions
    /\ rpAfterFailedLoad' = [rpAfterFailedLoad EXCEPT ![c] = IF @ = "failed" THEN "saving" ELSE "no"]
    /\ UNCHANGED <<role_permissions, rolePermissions, rpView, notPermissions>>

\* The delete of all rows answered: the insert is sent when there is a row
\* to insert, else the save has succeeded; or the delete was rejected.
RP_DeleteDone(c) ==
    /\ rpSaving[c] = "deleting"
    /\ \/ /\ role_permissions' = EmptyBag
          /\ rpSaving' = [rpSaving EXCEPT ![c] =
                             IF BagCardinality(permissionsToInsert(rpClosure[c])) > 0
                             THEN "inserting" ELSE "saved"]
       \/ /\ rpSaving' = [rpSaving EXCEPT ![c] = "failed"]
          /\ UNCHANGED role_permissions
    /\ UNCHANGED <<rolePermissions, rpView, rpClosure, rpStoreBefore, rpAfterFailedLoad, notPermissions>>

\* The insert answered: accepted, when the table keeps its pairs unique, or
\* rejected.
RP_InsertDone(c) ==
    /\ rpSaving[c] = "inserting"
    /\ \/ /\ UniquePairs(role_permissions (+) permissionsToInsert(rpClosure[c]))
          /\ role_permissions' = role_permissions (+) permissionsToInsert(rpClosure[c])
          /\ rpSaving' = [rpSaving EXCEPT ![c] = "saved"]
       \/ /\ rpSaving' = [rpSaving EXCEPT ![c] = "failed"]
          /\ UNCHANGED role_permissions
    /\ UNCHANGED <<rolePermissions, rpView, rpClosure, rpStoreBefore, rpAfterFailedLoad, notPermissions>>

-----
(* calculatePayableAmount applied to one pair (actual_hours, hourly_rate)   *)

\* Hours 0, 0.5, ..., MaxHalfHours / 2.
MaxHalfHours == 24

PayableHours == {Num(h) \div 2 : h \in 0..MaxHalfHours}

PayableRates == {Num(0), Num(15), Num(20), Num(25)}

GrossIdle ==
    /\ grossArgs = [hours |-> 0, rate |-> 0]
    /\ grossResult = <<>>

InitPay ==
    /\ payArgs \in [actual_hours : PayableHours, hourly_rate : PayableRates]
    /\ payResult = <<>>
    /\ GrossIdle

PayIdle ==
    /\ payArgs = [actual_hours |-> Num(8), hourly_rate |-> Num(0)]
    /\ payResult = <<>>

CallCalculatePayableAmount ==
    /\ payResult = <<>>
    /\ payResult' = <<calculatePayableAmount(payArgs)>>
    /\ UNCHANGED <<payArgs, grossArgs, grossResult, notPay>>

-----
(* calculateTotalHours applied at every call site to one pair of times     *)

CallSites == {"LogHours", "SubmitForm", "RosterDialog", "RosterCreate",
              "RosterMulti", "RosterRange"}

calculateTotalHoursAt(site, s, e) ==
    CASE site = "LogHours"     -> calculateTotalHours_LogHours(s, e)
      [] site = "SubmitForm"   -> calculateTotalHours_SubmitForm(s, e)
      [] site = "RosterDialog" -> calculateTotalHours_RosterDialog(s, e)
      [] site = "RosterCreate" -> calculateTotalHours_RosterCreate(s, e)
      [] site = "RosterMulti"  -> calculateTotalHours_RosterMulti(s, e)
      [] site = "RosterRange"  -> calculateTotalHours_RosterRange(s, e)

\* Before the call a site has no result; after it, the one value returned.
NotCalled == <<>>

\* The tables and every view as constructed.
InitViews ==
    /\ working_hours = EmptyBag
    /\ rostersTable = [r \in RosterIds |-> [is_locked |-> FALSE]]
    /\ InitRosterView
    /\ InitRosterRange
    /\ InitLogHours
    /\ InitSubmitForm
    /\ InitPayroll
    /\ InitRolePermissions
    /\ InitWorkingHoursAdmin

\* One pair of clock times, no call made yet.
InitCalc ==
    /\ calcStart \in ClockTimes
    /\ calcEnd \in ClockTimes
    /\ calcResult = [site \in CallSites |-> NotCalled]

\* The same when no call is going to be made.
CalcIdle ==
    /\ calcStart = <<9, 0>>
    /\ calcEnd = <<17, 0>>
    /\ calcResult = [site \in CallSites |-> NotCalled]

CallCalculateTotalHours(site) ==
    /\ calcResult[site] = NotCalled
    /\ calcResult' = [calcResult EXCEPT ![site] = <<calculateTotalHoursAt(site, calcStart, calcEnd)>>]
    /\ UNCHANGED <<calcStart, calcEnd, notCalc>>

NextCalc == \E site \in CallSites : CallCalculateTotalHours(site)

InitCalcSpec == InitViews /\ InitCalc /\ PayIdle /\ GrossIdle

SpecCalc == InitCalcSpec /\ [][NextCalc]_vars

-----------------------------------------------------------------------------
(* The log-hours form on its own                                           *)

NextLogHours ==
    \/ LH_Mount
    \/ \E i \in 1..Len(fetching) : \E query \in FetchQueries : \E answer \in {"ok", "error"} :
           LH_Response(i, query, answer)
    \/ LH_FetchDataOk
    \/ LH_FetchDataError
    \/ LH_OpenForm
    \/ \E p \in profiles : LH_Edit("profile_id", p)
    \/ \E field \in DOMAIN LogHoursInputs : \E value \in LogHoursInputs[field] : LH_Edit(field, value)
    \/ LH_ResetForm
    \/ LH_HandleSubmit
    \/ LH_InsertOk
    \/ LH_InsertError

InitIdle == InitViews /\ CalcIdle /\ PayIdle /\ GrossIdle

SpecLogHours == InitIdle /\ [][NextLogHours]_vars

-----------------------------------------------------------------------------
(* The submit form on its own                                              *)

NextSubmitForm ==
    \/ Submit_Mount
    \/ Submit_FetchProfilesOk
    \/ Submit_FetchClientsOk(ActiveClientsOne)
    \/ Submit_FetchProjectsOk
    \/ Submit_FetchError
    \/ Submit_SelectProfile
    \/ Submit_SelectClient
    \/ Submit_SelectProject
    \/ \E field \in DOMAIN SubmitFormInputs : \E value \in SubmitFormInputs[field] : Submit_Set(field, value)
    \/ Submit_SubmitRejected
    \/ Submit_Submit
    \/ Submit_InsertOk
    \/ Submit_InsertError

SpecSubmitForm == InitIdle /\ [][NextSubmitForm]_vars

-----------------------------------------------------------------------------
(* The submit form with two active clients                                  *)

SubmitClientsInputs ==
    [date      |-> {"2024-01-15"},
     startTime |-> {<<9, 0>>},
     endTime   |-> {<<17, 0>>}]

NextSubmitClients ==
    \/ Submit_Mount
    \/ Submit_FetchProfilesOk
    \/ Submit_FetchClientsOk(ClientIds)
    \/ Submit_FetchProjectsOk
    \/ Submit_FetchError
    \/ Submit_SelectProfile
    \/ Submit_SelectClient
    \/ Submit_SelectProject
    \/ \E field \in DOMAIN SubmitClientsInputs : \E value \in SubmitClientsInputs[field] :
           Submit_Set(field, value)
    \/ Submit_SubmitRejected
    \/ Submit_Submit
    \/ Submit_InsertOk
    \/ Submit_InsertError

SpecSubmitClients == InitIdle /\ [][NextSubmitClients]_vars

-----------------------------------------------------------------------------
(* calculatePayableAmount on its own                                       *)

NextPayable == CallCalculatePayableAmount

InitPayableSpec == InitViews /\ CalcIdle /\ InitPay

SpecPayable == InitPayableSpec /\ [][NextPayable]_vars

------------------------------------------------------------------------

-----------------------------------------------------------------------------
(* The payroll views over one table                                         *)

NextPayroll ==
    \/ PV_Mount
    \/ PV_FetchProfilesOk
    \/ PV_FetchPayrollsDone
    \/ PV_handleProfileChange
    \/ \E field \in DOMAIN PayrollFormInputs : \E value \in PayrollFormInputs[field] : PV_Set(field, value)
    \/ PV_generatePayroll
    \/ \E id \in PayrollIds, status \in PayrollStatuses : PV_updatePayrollStatus(id, status)
    \/ SSM_Mount
    \/ SSM_FetchPayrollsDone
    \/ \E fd \in SalaryFormInputs : SSM_handleSubmit(fd)
    \/ \E id \in PayrollIds : SSM_deletePayroll(id)
    \/ \E id \in PayrollIds : PED_Open(id)
    \/ \E field \in DOMAIN DialogInputs : \E value \in DialogInputs[field] : PED_Set(field, value)
    \/ PED_handleSubmit
    \/ PED_Close

SpecPayroll == InitIdle /\ [][NextPayroll]_vars

-----------------------------------------------------------------------------
(* The generate form of the Payroll page alone, over more hours and rates   *)

PayrollFormWideInputs ==
    [payPeriodStart |-> Dates,
     payPeriodEnd   |-> Dates,
     totalHours     |-> {Num(0), Num(1), Num(8), Num(45), -Num(2)},
     hourlyRate     |-> {Num(0), Num(15), Num(25) \div 2, Num(20)}]

NextPayrollForm ==
    \/ PV_Mount
    \/ PV_FetchProfilesOk
    \/ PV_FetchPayrollsDone
    \/ PV_handleProfileChange
    \/ \E field \in DOMAIN PayrollFormWideInputs : \E value \in PayrollFormWideInputs[field] :
           PV_Set(field, value)
    \/ PV_generatePayroll

SpecPayrollForm == InitIdle /\ [][NextPayrollForm]_vars

-----------------------------------------------------------------------------
(* The gross pay of h hours and of 2 * h hours at every payroll call site   *)

GrossHours == PayableHours \cup {-Num(2)}

GrossSites == {"SalarySheetManager", "Payroll", "PayrollEditDialog"}

grossPayAt(site, hours, rate) ==
    CASE site = "SalarySheetManager" -> calculatePayroll(hours, rate, 0).gross
      [] site = "Payroll" ->
            payrollData([InitialPayrollForm EXCEPT !.totalHours = hours,
                                                   !.hourlyRate = rate]).gross_pay
      [] site = "PayrollEditDialog" ->
            PED_calculatePayroll([InitialDialogForm EXCEPT !.total_hours = hours,
                                                           !.hourly_rate = rate]).gross_pay

InitGross ==
    /\ grossArgs \in [hours : GrossHours, rate : PayableRates]
    /\ grossResult = [site \in GrossSites |-> NotCalled]

CallGrossPay(site) ==
    /\ grossResult[site] = NotCalled
    /\ grossResult' = [grossResult EXCEPT ![site] =
                           <<grossPayAt(site, grossArgs.hours, grossArgs.rate),
                             grossPayAt(site, 2 * grossArgs.hours, grossArgs.rate)>>]
    /\ UNCHANGED <<grossArgs, payArgs, payResult, notPay>>

NextGross == \E site \in GrossSites : CallGrossPay(site)

InitGrossSpec ==
    /\ InitViews
    /\ CalcIdle
    /\ payArgs = [actual_hours |-> Num(8), hourly_rate |-> Num(0)]
    /\ payResult = <<>>
    /\ InitGross

SpecGross == InitGrossSpec /\ [][NextGross]_vars

-----------------------------------------------------------------------------
(* The date-range Roster view over tables as found                          *)

NextRoster ==
    \/ Roster_Mount
    \/ Roster_FetchRostersDone
    \/ Roster_FetchWorkingHoursDone
    \/ \E roster \in rosters : Roster_handleEdit(roster)
    \/ Roster_CloseDialog

InitRosterSpec ==
    /\ working_hours \in LinkedWorkingHours
    /\ rostersTable \in RosterTables
    /\ InitRosterView
    /\ InitRosterRange
    /\ InitLogHours
    /\ InitSubmitForm
    /\ InitPayroll
    /\ InitRolePermissions
    /\ InitWorkingHoursAdmin
    /\ CalcIdle
    /\ PayIdle
    /\ GrossIdle

SpecRoster == InitRosterSpec /\ [][NextRoster]_vars

-----------------------------------------------------------------------------
(* The roster views writing the table while working hours get approved      *)

NextRosterEdit ==
    \/ NextRoster
    \/ Roster_handleSubmit
    \/ \E row \in BagToSet(working_hours) : ApproveWorkingHour(row)
    \/ RosterMulti_fetchData
    \/ \E id \in RosterIds : RosterMulti_deleteRoster(id)

InitRosterEditSpec ==
    /\ working_hours \in {b \in LinkedWorkingHours :
                              \A row \in BagToSet(b) :
                                  row.status = "pending" /\ row.date \in DatesInRange}
    /\ rostersTable \in RosterTables
    /\ InitRosterView
    /\ InitRosterRange
    /\ InitLogHours
    /\ InitSubmitForm
    /\ InitPayroll
    /\ InitRolePermissions
    /\ InitWorkingHoursAdmin
    /\ CalcIdle
    /\ PayIdle
    /\ GrossIdle

SpecRosterEdit == InitRosterEditSpec /\ [][NextRosterEdit]_vars

-----------------------------------------------------------------------------
(* The date-range Roster view while its date range is changed               *)

NextRosterRange ==
    \/ RosterRange_Mount
    \/ \E range \in DateRanges : Roster_setDateRange(range)
    \/ \E i \in 1..Len(rangeView.calls) : RosterRange_FetchRostersDone(i)
    \/ \E i \in 1..Len(rangeView.calls) : RosterRange_FetchWorkingHoursDone(i)

InitRosterRangeSpec ==
    /\ working_hours \in {b \in LinkedWorkingHours :
                              \A row \in BagToSet(b) :
                                  row.status = "pending" /\ row.roster_id = "r1"}
    /\ rostersTable = [r \in RosterIds |-> [is_locked |-> FALSE]]
    /\ InitRosterView
    /\ InitRosterRange
    /\ InitLogHours
    /\ InitSubmitForm
    /\ InitPayroll
    /\ InitRolePermissions
    /\ InitWorkingHoursAdmin
    /\ CalcIdle
    /\ PayIdle
    /\ GrossIdle

SpecRosterRange == InitRosterRangeSpec /\ [][NextRosterRange]_vars

-----------------------------------------------------------------------------
(* The working-hours management page                                        *)

NextWorkingHoursAdmin ==
    \/ WHM_Mount
    \/ WHM_FetchWorkingHoursDone
    \/ WHM_FetchProfilesDone
    \/ \E open \in BOOLEAN : WHM_setCreateDialogOpen(open)
    \/ \E p \in whm.profiles : WHM_Set("profile_id", p)
    \/ \E field \in DOMAIN NewWorkingHourInputs : \E value \in NewWorkingHourInputs[field] :
           WHM_Set(field, value)
    \/ createWorkingHour
    \/ WHM_InsertDone

SpecWorkingHoursAdmin == InitIdle /\ [][NextWorkingHoursAdmin]_vars

-----------------------------------------------------------------------------
(* One session of RolePermissionsManager                                    *)

RP_Next(c, roles) ==
    \/ fetchRolePermissions(c)
    \/ RP_FetchDone(c)
    \/ \E role \in roles : \E permission \in Permissions : RP_togglePermission(c, role, permission)
    \/ updateRolePermissions(c)
    \/ RP_DeleteDone(c)
    \/ RP_InsertDone(c)

NextPermissions == RP_Next("c1", Roles)

SpecPermissions == InitIdle /\ [][NextPermissions]_vars

-----------------------------------------------------------------------------
(* Two sessions of RolePermissionsManager saving the permissions of one role *)

NextPermissionsRace == \E c \in Clients : RP_Next(c, {"admin"})

SpecPermissionsRace == InitIdle /\ [][NextPermissionsRace]_vars

-----
(* Properties                                                               *)

\* The payable amount the spec gives for a hours at rate r, times 2 * Num(1)
\* (whole numbers only): min(a, 8) * r + max(0, a - 8) * r * 1.5.
PayableTimesTwo(a, r) ==
    2 * (IF a <= Num(8) THEN a ELSE Num(8)) * r + 3 * (IF a > Num(8) THEN a - Num(8) ELSE 0) * r

\* C1: for actual_hours >= 0 and hourly_rate >= 0 calculatePayableAmount returns
\* min(actual_hours, 8) * hourly_rate + max(0, actual_hours - 8) * hourly_rate * 1.5;
\* up to 8 hours that is actual_hours * hourly_rate; 10 h at 20 gives 220 and
\* 6 h at 15 gives 90.
C1_PayableAmount ==
    payResult # <<>> =>
        LET a == payArgs.actual_hours
            r == payArgs.hourly_rate
            p == payResult[1]
        IN  (a >= 0 /\ r >= 0) =>
                /\ p * 2 * Num(1) = PayableTimesTwo(a, r)
                /\ a <= Num(8) => p * Num(1) = a * r
                /\ (a = Num(10) /\ r = Num(20)) => p = Num(220)
                /\ (a = Num(6) /\ r = Num(15)) => p = Num(90)

C1_Witness ==
    /\ payArgs = [actual_hours |-> Num(10), hourly_rate |-> Num(20)]
    /\ payResult = <<Num(220)>>

\* C2: every row a working-hours create handler inserted has
\* overtime_hours = max(0, actual_hours - 8) and payable_amount = min(actual_hours, 8)
\* * hourly_rate + overtime_hours * hourly_rate * 1.5.
C2_InsertedRowsDerived ==
    \A row \in BagToSet(working_hours) :
        /\ row.overtime_hours = (IF row.actual_hours > Num(8) THEN row.actual_hours - Num(8) ELSE 0)
        /\ row.payable_amount * 2 * Num(1) = PayableTimesTwo(row.actual_hours, row.hourly_rate)

\* C3: in the log-hours form, once the effects have run, overtime_hours is
\* max(0, actual_hours - 8) and payable_amount is the payable formula of the
\* current actual_hours and hourly_rate.
C3_DerivedFieldsFresh ==
    mounted =>
        /\ formData.overtime_hours =
               (IF formData.actual_hours > Num(8) THEN formData.actual_hours - Num(8) ELSE 0)
        /\ formData.payable_amount * 2 * Num(1) =
               PayableTimesTwo(formData.actual_hours, formData.hourly_rate)

\* A second entry after a submit: p1 selected (rate 20), the rate then typed
\* over with 15, ten hours entered.
C3_Witness ==
    /\ mounted
    /\ BagCardinality(working_hours) = 1
    /\ formData.profile_id = "p1"
    /\ formData.actual_hours = Num(10)
    /\ formData.hourly_rate = Num(15)
    /\ formData.payable_amount = Num(165)
    /\ formData.overtime_hours = Num(2)

\* C4: whatever the two clock times, also with end < start, no row is written
\* with a negative total_hours.
C4_TotalHoursNeverNegative ==
    \A row \in BagToSet(working_hours) : row.total_hours >= 0

\* The minutes after midnight of a clock time.
MinutesOfDay(t) == t[1] * 60 + t[2]

\* C5: for end >= start every calculateTotalHours call site returns exactly
\* (end - start) in hours, so the call sites agree; 09:00 to 17:00 gives 8.
C5_SameDayHoursExact ==
    \A site \in CallSites :
        (calcResult[site] # NotCalled /\ MinutesOfDay(calcEnd) >= MinutesOfDay(calcStart)) =>
            /\ calcResult[site][1] * 60 = Num(MinutesOfDay(calcEnd) - MinutesOfDay(calcStart))
            /\ (calcStart = <<9, 0>> /\ calcEnd = <<17, 0>>) => calcResult[site] = <<Num(8)>>

C5_Witness ==
    /\ calcStart = <<9, 0>>
    /\ calcEnd = <<17, 0>>
    /\ \A site \in CallSites : calcResult[site] = <<Num(8)>>

\* C6: at every payroll call site the gross pay is total_hours * hourly_rate,
\* and the gross pay of 2 * h hours at rate r is exactly twice that of h hours.
C6_GrossLinear ==
    \A site \in GrossSites :
        grossResult # <<>> /\ grossResult[site] # NotCalled =>
            /\ grossResult[site][1] * Num(1) = grossArgs.hours * grossArgs.rate
            /\ grossResult[site][2] = 2 * grossResult[site][1]

C6_Witness ==
    /\ grossArgs = [hours |-> Num(3) \div 2, rate |-> Num(15)]
    /\ \A site \in GrossSites : grossResult[site] = <<(Num(45) \div 2), Num(45)>>

\* C7: the net pay computed is gross - deductions, negative when deductions
\* exceed gross, and a save with such a net pay goes through unclamped.
C7_NetIsGrossMinusDeductions ==
    /\ pedFormData.net_pay = pedFormData.gross_pay - pedFormData.deductions
    /\ pedFormData.deductions > pedFormData.gross_pay => pedFormData.net_pay < 0
    /\ \A id \in PayrollIds :
           (payroll[id] # NoRow /\ payroll[id].deductions > payroll[id].gross_pay) =>
               /\ payroll[id].net_pay = payroll[id].gross_pay - payroll[id].deductions
               /\ payroll[id].net_pay < 0

\* The row of SalarySheetManager's handleSubmit, 4 h at 20 less 100, looked at
\* in the dialog with the deductions raised to 300 and saved.
C7_Witness ==
    /\ payroll[1] # NoRow
    /\ payroll[1].profile_id = "p2"
    /\ payroll[1].gross_pay = Num(80)
    /\ payroll[1].deductions = Num(300)
    /\ payroll[1].net_pay = -Num(220)
    /\ ~pedOpen

\* C8: every stored payroll row has gross_pay = total_hours * hourly_rate and
\* net_pay = gross_pay - deductions, whatever was opened, edited and saved.
C8_StoredPayrollConsistent ==
    \A id \in PayrollIds :
        payroll[id] # NoRow =>
            /\ payroll[id].gross_pay * Num(1) = payroll[id].total_hours * payroll[id].hourly_rate
            /\ payroll[id].net_pay = payroll[id].gross_pay - payroll[id].deductions

\* A generated row (10 h at 20, deductions 200 * 0.1) saved from the dialog with
\* 5 hours and deductions 300.
C8_Witness ==
    /\ payroll[1] # NoRow
    /\ payroll[1].profile_id = "p1"
    /\ payroll[1].total_hours = Num(5)
    /\ payroll[1].gross_pay = Num(100)
    /\ payroll[1].deductions = Num(300)
    /\ payroll[1].net_pay = -Num(200)

StatusRank(status) ==
    CASE status = "pending" -> 0 [] status = "approved" -> 1 [] status = "paid" -> 2

\* C9: a stored payroll row's status never moves to an earlier one, and a row
\* stored as paid is never modified or deleted afterwards.
C9_StatusOnlyProgresses ==
    [][\A id \in PayrollIds :
           payroll[id] # NoRow =>
               IF payroll[id].status = "paid"
               THEN payroll'[id] = payroll[id]
               ELSE payroll'[id] # NoRow =>
                        StatusRank(payroll'[id].status) >= StatusRank(payroll[id].status)]_vars

\* C10: isRosterEditable(roster) holds exactly when no listed working-hours
\* row linked to the roster is approved and the roster is not locked: one
\* approved row makes it false whatever the other linked rows are, and a lock
\* makes it false even without any approved row.
C10_EditableIffNoApprovedAndUnlocked ==
    \A roster \in rosters :
        LET linked   == {wh \in workingHours : wh.roster_id = roster.id}
            approved == {wh \in linked : wh.status = "approved"}
        IN  /\ isRosterEditable(roster) <=> (approved = {} /\ ~roster.is_locked)
            /\ approved # {} => ~isRosterEditable(roster)
            /\ roster.is_locked => ~isRosterEditable(roster)

\* Roster r1 unlocked with three linked rows, one pending, one approved, one
\* rejected, and so not editable; roster r2 locked without any row.
C10_Witness ==
    /\ rosterFetch = "idle"
    /\ [id |-> "r1", is_locked |-> FALSE] \in rosters
    /\ [id |-> "r2", is_locked |-> TRUE] \in rosters
    /\ \A status \in WorkingHourStatuses :
           \E wh \in workingHours : wh.roster_id = "r1" /\ wh.status = status
    /\ ~isRosterEditable([id |-> "r1", is_locked |-> FALSE])
    /\ ~isRosterEditable([id |-> "r2", is_locked |-> TRUE])

\* C11: a roster that is not editable in the store (a linked working-hours row
\* approved there, or is_locked) is never updated or deleted by a roster view
\* action, under every interleaving of opening the edit form, an approval by
\* another actor and submitting.
StoreEditable(r) ==
    /\ ~rostersTable[r].is_locked
    /\ \A row \in BagToSet(working_hours) : ~(row.roster_id = r /\ row.status = "approved")

C11_NonEditableNeverWritten ==
    [][\A r \in DOMAIN rostersTable :
           ~StoreEditable(r) =>
               /\ r \in DOMAIN rostersTable'
               /\ rosterRevision'[r] = rosterRevision[r]]_vars

\* C16: no working-hours insert is issued, and none reaches the table, while
\* the worker selection of the form that issues it is missing.
C16_NoInsertWithMissingSelection ==
    /\ inserting # <<>> => inserting[1].profile_id # NoSelection
    /\ sfInserting # <<>> => sfInserting[1].profile_id # NoSelection
    /\ \A row \in BagToSet(working_hours) : row.profile_id # NoSelection

\* C17: once fetchRosterData has completed, with no writer since, a fetched
\* roster is not editable whenever the working_hours table holds an approved
\* row linked to it, whatever the row's date.
C17_ApprovedInStoreNotEditable ==
    rosterFetch = "idle" =>
        \A R \in rosters :
            (\E row \in BagToSet(working_hours) : row.roster_id = R.id /\ row.status = "approved")
                => ~isRosterEditable(R)

\* C18: handleEdit on a roster that is not editable shows 'Cannot Edit' and
\* changes nothing else: editingRoster, formData and isDialogOpen keep their
\* values and no table nor any fetch is touched.
C18_HandleEditRejected ==
    [][\A roster \in rosters :
           (~isRosterEditable(roster) /\ Roster_handleEdit(roster)) =>
               /\ toast' = "Cannot Edit"
               /\ UNCHANGED <<editingRoster, rosterFormData, isDialogOpen, rosters, workingHours,
                              rosterFetch, rmRosters, rosterTables, notRoster>>]_vars

C18_Witness ==
    /\ toast = "Cannot Edit"
    /\ \E roster \in rosters : ~isRosterEditable(roster)
    /\ editingRoster = NoRoster
    /\ ~isDialogOpen
    /\ rosterFormData = InitialRosterForm

\* The (role, permission) pairs hasPermission answers true for.
MatrixPairs(matrix) ==
    UNION {{<<role, matrix[role][i]>> : i \in 1..Len(matrix[role])} : role \in DOMAIN matrix}

ToggleTwice(matrix, role, permission) ==
    togglePermission(togglePermission(matrix, role, permission), role, permission)

\* C12, as claimed: toggling the same (role, permission) twice returns the
\* in-memory matrix to its original state, from every matrix a session shows.
C12_ToggleTwiceRestoresMatrix ==
    \A c \in Clients : \A role \in Roles : \A permission \in Permissions :
        rpView[c] = "shown" =>
                ToggleTwice(rolePermissions[c], role, permission) = rolePermissions[c]

\* C12, amended: toggling twice returns the matrix to its original set of
\* (role, permission) pairs; the matrix itself is the original one when the
\* role had an entry in which the permission was absent or last.
C12_ToggleTwiceRestoresPairs ==
    \A c \in Clients : \A role \in Roles : \A permission \in Permissions :
        LET matrix == rolePermissions[c]
            twice  == ToggleTwice(matrix, role, permission)
        IN  /\ MatrixPairs(twice) = MatrixPairs(matrix)
            /\ DOMAIN twice = DOMAIN matrix \cup {role}
            /\ (/\ role \in DOMAIN matrix
                /\ \A i \in 1..(Len(matrix[role]) - 1) : matrix[role][i] # permission)
                   => twice = matrix

C12_Witness ==
    /\ rpView["c1"] = "shown"
    /\ rolePermissions["c1"] = [r \in Roles |-> IF r = "admin"
                                                THEN <<"dashboard_view", "employees_view">>
                                                ELSE <<>>]

\* C13: once updateRolePermissions has succeeded, with no other writer, the
\* pairs in table role_permissions are exactly the pairs of the matrix the
\* save was made with, each stored once; an empty matrix leaves the table empty.
C13_SavedStoreIsMatrix ==
    rpSaving["c1"] = "saved" =>
        /\ BagToSet(role_permissions) = MatrixPairs(rpClosure["c1"])
        /\ \A pair \in BagToSet(role_permissions) : CopiesIn(pair, role_permissions) = 1

C13_Witness ==
    /\ rpSaving["c1"] = "saved"
    /\ BagToSet(role_permissions) = {<<"admin", "employees_view">>, <<"employee", "dashboard_view">>}
    /\ <<"admin", "dashboard_view">> \in BagToSet(rpStoreBefore)

\* C14: a save that ended in an error leaves table role_permissions as it was
\* when the save started.
C14_FailedSaveLeavesStore ==
    rpSaving["c1"] = "failed" => role_permissions = rpStoreBefore

\* C15: once two sessions have both completed a save, with matrices A and B,
\* the table holds exactly the pairs of A or exactly the pairs of B.
C15_LastWriteWins ==
    (rpSaving["c1"] = "saved" /\ rpSaving["c2"] = "saved") =>
        \E c \in Clients : BagToSet(role_permissions) = MatrixPairs(rpClosure[c])

\* C19: a toggle changes the membership of its own (role, permission) pair in
\* the session's matrix and of no other pair, and leaves the table alone; the
\* table changes only in a step of a running updateRolePermissions.
C19_ToggleFrame ==
    [][/\ \A role \in Roles : \A permission \in Permissions :
              RP_togglePermission("c1", role, permission) =>
                  /\ role_permissions' = role_permissions
                  /\ MatrixPairs(rolePermissions'["c1"]) \ {<<role, permission>>}
                         = MatrixPairs(rolePermissions["c1"]) \ {<<role, permission>>}
                  /\ <<role, permission>> \in MatrixPairs(rolePermissions'["c1"])
                         <=> <<role, permission>> \notin MatrixPairs(rolePermissions["c1"])
       /\ role_permissions' # role_permissions =>
              \E c \in Clients : rpSaving[c] \in {"deleting", "inserting"}]_vars

C19_Witness ==
    /\ rpView["c1"] = "shown"
    /\ MatrixPairs(rolePermissions["c1"]) = {<<"admin", "dashboard_view">>}
    /\ BagToSet(role_permissions) = {<<"admin", "dashboard_view">>, <<"employee", "employees_view">>}
    /\ rpSaving["c1"] = "saved"

C21_FetchAllOrNothing ==
    [][/\ (mounted' /\ ~loading') => fetching' = <<>>
       /\ LH_FetchDataError => UNCHANGED <<lhWorkingHours, profiles, clients, projects>>
       /\ <<lhWorkingHours, profiles, clients, projects>>' # <<lhWorkingHours, profiles, clients, projects>>
              => \E i \in 1..Len(fetching) :
                     \A query \in FetchQueries : fetching[i].answers[query] = "ok"]_vars

\* C22: when the insert of the log-hours form fails, handleSubmit leaves
\* formData, isCreateMode and the local collections as they were and starts no
\* refetch; after the mount, a fetchData call starts, and the step ending an
\* insert changes formData or isCreateMode, only when the store has taken the row.
C22_FailedInsertLeavesState ==
    [][/\ LH_InsertError =>
              UNCHANGED <<formData, isCreateMode, lhWorkingHours, profiles, clients, projects,
                          fetching, working_hours>>
       /\ (mounted /\ Len(fetching') > Len(fetching)) =>
              /\ inserting # <<>>
              /\ working_hours' = working_hours (+) SetToBag({inserting[1]})
       /\ (/\ inserting # <<>>
           /\ inserting' = <<>>
           /\ <<formData, isCreateMode>>' # <<formData, isCreateMode>>) =>
              working_hours' = working_hours (+) SetToBag({inserting[1]})]_vars

C22_Witness ==
    /\ inserting # <<>>
    /\ isCreateMode
    /\ formData.profile_id = "p1"
    /\ formData.hourly_rate = Num(15)
    /\ formData # AfterSet(InitialFormData)

\* C30: selecting an employee in the log-hours form leaves the form's hourly
\* rate at that employee's default rate, 0 when the employee has none, and a
\* refetch of the profiles does not change the rate of a form that has an
\* employee selected.
C30_RateFollowsSelection ==
    [][/\ \A p \in ProfileIds :
              LH_Edit("profile_id", p) => formData'.hourly_rate = ProfileHourlyRate(p)
       /\ (LH_FetchDataOk /\ formData.profile_id # NoSelection) =>
              formData'.hourly_rate = formData.hourly_rate]_vars

\* C24: for end < start the roster creation form's calculateTotalHours
\* returns (end - start) + 24 hours; its result always lies in [0, 24), is 8 for
\* 22:00 to 06:00 and 0 for end = start.
C24_OvernightWraps ==
    calcResult["RosterCreate"] # NotCalled =>
        LET hours == calcResult["RosterCreate"][1]
            diff  == MinutesOfDay(calcEnd) - MinutesOfDay(calcStart)
        IN  /\ diff < 0 => hours * 60 = Num(diff + 24 * 60)
            /\ hours >= Num(0) /\ hours < Num(24)
            /\ (calcStart = <<22, 0>> /\ calcEnd = <<6, 0>>) => hours = Num(8)
            /\ diff = 0 => hours = Num(0)

C24_Witness ==
    /\ calcStart = <<22, 0>>
    /\ calcEnd = <<6, 0>>
    /\ calcResult["RosterCreate"] = <<Num(8)>>

\* C25: every row generatePayroll inserts has deductions of 10% of gross_pay
\* and net_pay = gross_pay - deductions; with total_hours > 0 and
\* hourly_rate > 0 its net_pay is positive and at most gross_pay.
C25_GeneratedRowTenPercent ==
    [][PV_generatePayroll =>
           \A id \in PayrollIds :
               payroll'[id] # payroll[id] =>
                   LET row == payroll'[id]
                   IN  /\ row.deductions * 10 = row.gross_pay
                       /\ row.net_pay = row.gross_pay - row.deductions
                       /\ row.net_pay * 10 = row.gross_pay * 9
                       /\ (row.total_hours > 0 /\ row.hourly_rate > 0) =>
                              (row.net_pay > 0 /\ row.net_pay <= row.gross_pay)]_vars

C25_Witness ==
    \E id \in PayrollIds :
        /\ payroll[id] # NoRow
        /\ payroll[id].total_hours = Num(45)
        /\ payroll[id].hourly_rate = Num(25) \div 2
        /\ payroll[id].net_pay > 0
        /\ pvForm = InitialPayrollForm

\* C23: every working-hours row is created with status pending: no create
\* handler sends, and the table never takes, a new row with another status.
C23_CreatedPending ==
    /\ \A row \in BagToSet(working_hours) : row.status = "pending"
    /\ \A sent \in {inserting, sfInserting, whmInserting} :
           sent # <<>> => sent[1].status = "pending"

\* C27: a Refresh whose load completes while a save of the same session is
\* running loads the pairs the table held before the save or the pairs the
\* save writes, never the empty table between the delete and the insert.
C27_RefreshDuringSave ==
    [][(/\ rpView["c1"] = "loading"
        /\ rpView'["c1"] = "shown"
        /\ rpSaving["c1"] \in {"deleting", "inserting"}
        /\ rolePermissions'["c1"] # rolePermissions["c1"])
       => MatrixPairs(rolePermissions'["c1"])
              \in {BagToSet(rpStoreBefore), MatrixPairs(rpClosure["c1"])}]_vars

\* C28: a save started after a load that failed and left the matrix at its
\* initial, empty value has on succeeding removed no pair the table held when
\* the save started.
C28_SaveAfterFailedLoadKeepsPairs ==
    \A c \in Clients :
        (/\ rpAfterFailedLoad[c] = "saving"
         /\ rpSaving[c] = "saved"
         /\ \A other \in Clients \ {c} : rpSaving[other] \notin {"deleting", "inserting"})
        => BagToSet(rpStoreBefore) \subseteq BagToSet(role_permissions)

\* C29: every row the working-hours forms send, and every row of the table,
\* has a project_id that is a project of the row's client_id.
C29_ProjectOfClient ==
    /\ \A row \in BagToSet(working_hours) : ProjectClient(row.project_id) = row.client_id
    /\ sfInserting # <<>> => ProjectClient(sfInserting[1].project_id) = sfInserting[1].client_id

\* C26: with the date range complete and no fetchRosterData call in flight,
\* the view's rosters and workingHours are those of the selected date range,
\* however the calls answered.
C26_ListsOfSelectedRange ==
    (/\ rangeView.mounted
     /\ rangeView.calls = <<>>
     /\ RangeComplete(rangeView.dateRange))
    => /\ rosters = RostersInRange(rangeView.dateRange)
       /\ workingHours = WorkingHoursInRange(rangeView.dateRange)

====
